---- MODULE Spec2Model ----
(***************************************************************************)
(* Model of the NNStreamer single-shot C-API (nnstreamer-capi-single.c):   *)
(* the ml_single handle, the process-wide magic lock, the per-handle       *)
(* mutex, and the appsrc -> tensor_filter -> appsink pipeline each handle  *)
(* pushes into and pulls from.                                             *)
(***************************************************************************)
EXTENDS Integers, Sequences, FiniteSets, TLC

\* ---------------------------------------------------------------- bounds
\* Number of API calls started in one behaviour.
MaxOps == 3

\* Samples the pipeline of a newly opened handle hands to its appsink.
MaxArrivals == 2

\* Memories in the buffer of a sample handed to "Copy the result".
MaxMems == 3

\* Calls into the subplugin registry started in one behaviour.
MaxRegOps == 3

\* Sockets the tensor query client connects in one behaviour.
MaxSockets == 3

\* Entries of one searched directory.
MaxEntries == 2

\* Application threads calling into the API, and the handles they share.
Threads == {1, 2, 3}
Handles == {1, 2}

\* ------------------------------------------------------ program constants
ML_SINGLE_MAGIC == "0xfeedfeed"
MAGIC_CLEARED == "0x0"
SINGLE_DEFAULT_TIMEOUT == 3000
ML_TENSOR_RANK_LIMIT == 4

ML_ERROR_NONE == "ML_ERROR_NONE"
ML_ERROR_INVALID_PARAMETER == "ML_ERROR_INVALID_PARAMETER"
ML_ERROR_STREAMS_PIPE == "ML_ERROR_STREAMS_PIPE"
ML_ERROR_TIMED_OUT == "ML_ERROR_TIMED_OUT"
ML_ERROR_UNKNOWN == "ML_ERROR_UNKNOWN"

NULL == "NULL"
UNINIT == "UNINIT"
NoThread == 0
NoHandle == 0

\* ------------------------------------------------------------ data model
\* Element width in bytes of a tensor type.
ml_tensor_element_size(type) ==
  CASE type = "int8" -> 1
    [] type = "uint8" -> 1
    [] type = "int16" -> 2
    [] type = "uint16" -> 2
    [] type = "int32" -> 4
    [] type = "uint32" -> 4
    [] type = "float32" -> 4
    [] type = "int64" -> 8
    [] type = "uint64" -> 8
    [] type = "float64" -> 8
    [] OTHER -> 0

RECURSIVE DimProduct(_, _)
DimProduct(dim, i) ==
  IF i > ML_TENSOR_RANK_LIMIT THEN 1 ELSE dim[i] * DimProduct(dim, i + 1)

\* Byte size of one tensor: product of the dimensions times the element width.
ml_tensor_info_get_size(info) ==
  ml_tensor_element_size(info.type) * DimProduct(info.dimension, 1)

\* ml_tensor_info_s: name, type, dimension.  A tensor_filter reports the
\* tensors of its model without names.
Uint8Image == [name |-> NULL, type |-> "uint8", dimension |-> <<1, 28, 28, 1>>]
Float32Scores == [name |-> NULL, type |-> "float32", dimension |-> <<1, 10, 1, 1>>]

\* The descriptor a caller writes for a tensor of the model: the same type
\* and dimension, under a name of the caller's choosing.
Named(info, name) == [info EXCEPT !.name = name]

\* The descriptors stored when the handles were opened.  An odd handle was
\* opened with no descriptors (both were taken from the filter); an even
\* handle was opened with explicit input and output descriptors.
InInfo(h) ==
  IF h % 2 = 1
    THEN [num_tensors |-> 1, info |-> <<Uint8Image>>]
    ELSE [num_tensors |-> 2,
          info |-> <<Named(Uint8Image, "image"), Named(Float32Scores, "aux")>>]

\* The model of an odd handle is a pass-through (its output is a copy of its
\* input); the model of an even handle computes ten float32 scores.
IdentityBackend(h) == h % 2 = 1

OutInfo(h) ==
  IF IdentityBackend(h)
    THEN InInfo(h)
    ELSE [num_tensors |-> 1, info |-> <<Named(Float32Scores, "scores")>>]

\* What the tensor_filter of a handle reports in its input/output, type and
\* name properties: the tensors of its model.
Unnamed(infos) ==
  [infos EXCEPT !.info = [i \in 1..infos.num_tensors |-> Named(infos.info[i], NULL)]]

FilterProperties(h, is_input) == Unnamed(IF is_input THEN InInfo(h) ELSE OutInfo(h))

FreedInfo == [num_tensors |-> 0, info |-> <<>>]

\* Input frames a caller may pass to ml_single_invoke.
Payloads == {"dataA"}

Inputs ==
  { [num_tensors |-> 1, tensors |-> <<[tensor |-> p, size |-> 784]>>] : p \in Payloads }
  \cup { [num_tensors |-> 1, tensors |-> <<[tensor |-> "dataA", size |-> 783]>>],
         [num_tensors |-> 1, tensors |-> <<[tensor |-> NULL, size |-> 784]>>],
         [num_tensors |-> 2, tensors |-> <<[tensor |-> "dataA", size |-> 784],
                                           [tensor |-> "dataB", size |-> 40]>>] }

\* The caller's *output: never written, NULL, or an allocated ml_tensors_data_s.
OutputUninit == [ptr |-> UNINIT, tensors |-> <<>>]
OutputNull == [ptr |-> NULL, tensors |-> <<>>]

NoInput == [num_tensors |-> 0, tensors |-> <<>>]
NoSample == [id |-> 0, by |-> 0, mems |-> <<>>]

\* The caller's *info of ml_single_get_input_info / ml_single_get_output_info.
NoInfo == [is_input |-> FALSE, info |-> FreedInfo]

TimeoutArgs == {0, 5000}

VARIABLES
  single,       \* [Handles -> ml_single], plus freed: g_free (single_h) done
  magic_lock,   \* owner of G_LOCK (magic), NoThread when unlocked
  pc,           \* position of each thread inside the API call it runs
  op,           \* API function each thread is running / has last run
  hnd,          \* the handle argument of that call
  input,        \* ml_single_invoke: the input argument
  timeout_arg,  \* ml_single_set_timeout: the timeout argument
  sample,       \* ml_single_invoke: local GstSample *sample
  cause,        \* why the pull in ml_single_invoke ended
  cleared,      \* ml_single_invoke: this call ran the clear-old-buffer branch
  wait_bound,   \* timeout value handed to gst_app_sink_try_pull_sample
  pushed,       \* id of the frame this call pushed into appsrc (0: none)
  ret,          \* ml_single_invoke: local GstFlowReturn ret of the push
  status,       \* return value
  output,       \* caller's *output
  info_h,       \* ml_single_get_tensors_info: is_input and the caller's *info
  appsrc,       \* [Handles -> Seq(frame)]: frames pushed, not yet filtered
  appsink,      \* [Handles -> Seq(frame)]: appsink queue (max-buffers 1, drop)
  eos,          \* [Handles -> BOOLEAN]: appsink reached end-of-stream
  nops,         \* API calls started so far
  open_pc,      \* ml_single_open: position of the call
  open_args,    \* ml_single_open: the arguments single, model, input_info, ...
  open_nnfw,    \* ml_single_open: local copy of nnfw, replaced by the detection
  open_status,  \* ml_single_open: local status / return value
  available,    \* ml_single_open: local available, set by the availability check
  reported,     \* ml_single_open: locals in_info and out_info, what the filter reported
  open_sink,    \* ml_single_open: the appsink "sinkx" of the pipeline being opened
  open_single,  \* ml_single_open: the caller's *single
  single_h,     \* ml_single_open: the ml_single being built
  res,          \* ml_single_open: what the call allocated so far
  cp_pc,        \* "Copy the result" of ml_single_invoke: position
  cp_info,      \* single_h->out_info the output is allocated from
  cp_buffer,    \* the memories of the buffer of the sample pulled from the appsink
  cp_i,         \* loop index i (from 1)
  cp_result,    \* the blocks of *output: bytes allocated, bytes copied, source
  splock,       \* owner of G_LOCK (splock), NoThread when unlocked
  sp_table,     \* subplugins[type]: 0 for NULL, else the number of a table
  sp_tables,    \* the hash tables made so far: the names each holds
  sp_pc,        \* subplugin registry: position of each thread
  sp_op,        \* the registry function each thread runs or has last run
  sp_name,      \* its name argument
  sp_ret,       \* its return value
  sp_in_get,    \* register_subplugin was called from inside get_subplugin
  sp_nops,      \* registry calls started so far
  qc_sink_socket, \* tensor query client: self->sink_socket, 0 for NULL
  qc_src_socket,  \* self->src_socket, 0 for NULL
  qc_sink_port,   \* self->sink_port
  qc_src_port,    \* self->src_port
  qc_flags,     \* the object flags that are set
  qc_sockets,   \* every socket connected so far: its port, open or closed
  qc_pc,        \* position inside start or stop, "idle" between calls
  qc_op,        \* the virtual method running or last run
  qc_ret,       \* its return value
  cf_search,    \* nnstreamer_conf: searchpath[CONF_SOURCES] of one type
  cf_pc,        \* position: scanning, filling the vstr, loaded, done
  cf_i,         \* loop index of _fill_in_vstr, counted from 1
  cf_lstF,      \* lstF, the list of full paths, head first
  cf_lstB,      \* lstB, the list of basenames, head first
  cf_files,     \* conf.filesFILTERS
  cf_basenames, \* conf.basenameFILTERS
  cf_name,      \* subpluginname passed to nnsconf_get_fullpath
  cf_ret        \* what nnsconf_get_fullpath returned

thrVars == <<pc, op, hnd, input, timeout_arg, sample, cause, cleared, wait_bound, pushed, ret,
             status, output, info_h>>
engVars == <<appsrc, appsink, eos>>
openVars == <<open_pc, open_args, open_nnfw, open_status, available, reported, open_sink,
              open_single, single_h, res>>
copyVars == <<cp_pc, cp_info, cp_buffer, cp_i, cp_result>>
regVars == <<splock, sp_table, sp_tables, sp_pc, sp_op, sp_name, sp_ret, sp_in_get, sp_nops>>
queryVars ==
  <<qc_sink_socket, qc_src_socket, qc_sink_port, qc_src_port, qc_flags, qc_sockets, qc_pc,
    qc_op, qc_ret>>
confVars ==
  <<cf_search, cf_pc, cf_i, cf_lstF, cf_lstB, cf_files, cf_basenames, cf_name, cf_ret>>
restVars == <<regVars, queryVars, confVars>>
otherVars == <<copyVars, restVars>>
vars == <<single, magic_lock, thrVars, engVars, nops, openVars, otherVars>>

\* State of a handle right after a successful ml_single_open.
OpenedHandle(h) ==
  [ magic |-> ML_SINGLE_MAGIC,
    pipe |-> "pipe", src |-> "srcx", sink |-> "sinkx", filter |-> "filterx",
    in_info |-> InInfo(h), out_info |-> OutInfo(h),
    lock |-> NoThread,
    clear_previous_buffer |-> FALSE,
    timeout |-> SINGLE_DEFAULT_TIMEOUT,
    freed |-> FALSE ]

ApiInit ==
  /\ single = [h \in Handles |-> OpenedHandle(h)]
  /\ magic_lock = NoThread
  /\ pc = [t \in Threads |-> "idle"]
  /\ op = [t \in Threads |-> "none"]
  /\ hnd = [t \in Threads |-> NoHandle]
  /\ input = [t \in Threads |-> NoInput]
  /\ timeout_arg = [t \in Threads |-> 0]
  /\ sample = [t \in Threads |-> NoSample]
  /\ cause = [t \in Threads |-> "none"]
  /\ cleared = [t \in Threads |-> FALSE]
  /\ wait_bound = [t \in Threads |-> 0]
  /\ pushed = [t \in Threads |-> 0]
  /\ ret = [t \in Threads |-> UNINIT]
  /\ status = [t \in Threads |-> ML_ERROR_NONE]
  /\ output = [t \in Threads |-> OutputUninit]
  /\ info_h = [t \in Threads |-> NoInfo]
  /\ appsrc = [h \in Handles |-> <<>>]
  /\ appsink = [h \in Handles |-> <<>>]
  /\ eos = [h \in Handles |-> FALSE]
  /\ nops = 0


\* ------------------------------------------------------------- API entry
\* Threads are interchangeable (the API keeps no per-thread state): the next
\* call is made by the lowest-numbered thread that is not inside a call.
CanCall(t) ==
  /\ pc[t] = "idle"
  /\ nops < MaxOps
  /\ \A u \in Threads : u < t => pc[u] # "idle"

\* Local variables of a call at its entry.  An argument that the function
\* only reads later (the input frame, the direction) is drawn where it is
\* first read.
Enter(t, o, h, next, st) ==
  /\ pc' = [pc EXCEPT ![t] = next]
  /\ op' = [op EXCEPT ![t] = o]
  /\ hnd' = [hnd EXCEPT ![t] = h]
  /\ status' = [status EXCEPT ![t] = st]
  /\ output' = [output EXCEPT ![t] = OutputUninit]
  /\ nops' = nops + 1
  /\ UNCHANGED <<input, sample, cause, cleared, wait_bound, info_h, pushed, ret>>

\* A call returns st.  Its locals and arguments are gone; what it wrote to
\* *output is observed at "done", the step before the return.
Return(t, st) ==
  /\ pc' = [pc EXCEPT ![t] = "idle"]
  /\ status' = [status EXCEPT ![t] = st]
  /\ hnd' = [hnd EXCEPT ![t] = NoHandle]
  /\ op' = [op EXCEPT ![t] = "none"]
  /\ output' = [output EXCEPT ![t] = OutputUninit]
  /\ info_h' = [info_h EXCEPT ![t] = NoInfo]
  /\ input' = [input EXCEPT ![t] = NoInput]
  /\ timeout_arg' = [timeout_arg EXCEPT ![t] = 0]
  /\ sample' = [sample EXCEPT ![t] = NoSample]
  /\ cause' = [cause EXCEPT ![t] = "none"]
  /\ cleared' = [cleared EXCEPT ![t] = FALSE]
  /\ wait_bound' = [wait_bound EXCEPT ![t] = 0]
  /\ pushed' = [pushed EXCEPT ![t] = 0]
  /\ ret' = [ret EXCEPT ![t] = UNINIT]

\* ml_single_invoke (single, input, output).
ml_single_invoke_call(t) ==
  /\ CanCall(t)
  /\ \E h \in Handles : Enter(t, "invoke", h, "glock", ML_ERROR_NONE)
  /\ UNCHANGED <<single, magic_lock, timeout_arg, engVars>>
  /\ UNCHANGED <<openVars, otherVars>>

\* ml_single_get_input_info / ml_single_get_output_info.
ml_single_get_tensors_info_call(t) ==
  /\ CanCall(t)
  /\ \E h \in Handles : Enter(t, "get_info", h, "glock", ML_ERROR_NONE)
  /\ UNCHANGED <<single, magic_lock, timeout_arg, engVars>>
  /\ UNCHANGED <<openVars, otherVars>>

\* Mutant: ml_single_set_timeout takes any timeout.
TimeoutValid_Any(timeout) == TRUE

\* if (... || timeout == 0) return ML_ERROR_INVALID_PARAMETER;
TimeoutValid(timeout) == timeout # 0

\* ml_single_set_timeout (single, timeout): a zero timeout is rejected up
\* front, before the handle is looked at.
ml_single_set_timeout_call(t) ==
  /\ CanCall(t)
  /\ \E h \in Handles, timeout \in TimeoutArgs :
       /\ IF ~TimeoutValid(timeout)
            THEN Enter(t, "set_timeout", NoHandle, "idle", ML_ERROR_INVALID_PARAMETER)
            ELSE Enter(t, "set_timeout", h, "glock", ML_ERROR_NONE)
       /\ timeout_arg' = [timeout_arg EXCEPT ![t] = timeout]
  /\ UNCHANGED <<single, magic_lock, engVars>>
  /\ UNCHANGED <<openVars, otherVars>>

\* ml_single_close (single).
ml_single_close_call(t) ==
  /\ CanCall(t)
  /\ \E h \in Handles : Enter(t, "close", h, "glock", ML_ERROR_NONE)
  /\ UNCHANGED <<single, magic_lock, timeout_arg, engVars>>
  /\ UNCHANGED <<openVars, otherVars>>

\* ------------------------------------------------- liveness check, locks
\* Values a read of single_h->magic can yield.  Memory already passed to
\* g_free is a dangling read: it may still hold the cleared tag or may hold
\* anything the allocator put there since, the tag of a new handle included.
MagicRead(h) ==
  IF single[h].freed THEN {MAGIC_CLEARED, ML_SINGLE_MAGIC} ELSE {single[h].magic}

\* G_LOCK (magic) is free to take.
\* Mutant: G_LOCK (magic) lets every caller through.
MagicLockFree_Always == TRUE

MagicLockFree == magic_lock = NoThread

\* ML_SINGLE_GET_VALID_HANDLE: take the magic lock, verify the tag; on a bad
\* tag unlock and return.  invalidate: ml_single_close clears the tag right
\* after the macro, still under the magic lock.
GetValidHandle(t, invalidate) ==
  /\ pc[t] = "glock"
  /\ MagicLockFree
  /\ \E m \in MagicRead(hnd[t]) :
       IF m # ML_SINGLE_MAGIC
         THEN /\ Return(t, ML_ERROR_INVALID_PARAMETER)
              /\ UNCHANGED <<single, magic_lock>>
         ELSE IF single[hnd[t]].freed
           THEN \* the call now runs on freed memory: behaviour undefined
                /\ pc' = [pc EXCEPT ![t] = "uaf"]
                /\ UNCHANGED <<single, magic_lock, status, hnd, op, output, input, timeout_arg,
                               sample, cause, cleared, wait_bound, info_h, pushed, ret>>
           ELSE /\ pc' = [pc EXCEPT ![t] = "hlock"]
                /\ magic_lock' = t
                /\ single' = IF invalidate
                               THEN [single EXCEPT ![hnd[t]].magic = MAGIC_CLEARED]
                               ELSE single
                /\ UNCHANGED <<status, hnd, op, output, input, timeout_arg, sample, cause, cleared,
                               wait_bound, info_h, pushed, ret>>
  /\ UNCHANGED <<engVars, nops>>
  /\ UNCHANGED <<openVars, otherVars>>

ML_SINGLE_GET_VALID_HANDLE(t) ==
  /\ op[t] \in {"invoke", "get_info", "set_timeout"}
  /\ GetValidHandle(t, FALSE)

ml_single_close_invalidate_Late(t) ==
  /\ op[t] = "close"
  /\ GetValidHandle(t, FALSE)

ml_single_close_invalidate(t) ==
  /\ op[t] = "close"
  /\ GetValidHandle(t, TRUE)

\* Mutant: the mutex never makes a caller wait.
MutexFree_NeverWaits(h) == TRUE

\* g_mutex_lock (&single_h->lock) returns only when the mutex is unlocked.
MutexFree(h) == single[h].lock = NoThread

\* First statement of each function's body.
Body(o) ==
  CASE o = "invoke" -> "validate"
    [] o = "get_info" -> "getinfo"
    [] o = "set_timeout" -> "settimeout"
    [] o = "close" -> "teardown"

\* Mutant: ml_single_close goes on to its teardown without waiting for the
\* per-handle mutex.
g_mutex_lock_CloseSkipsLock(t) ==
  /\ pc[t] = "hlock"
  /\ magic_lock = t
  /\ op[t] = "close" \/ MutexFree(hnd[t])
  /\ single' = [single EXCEPT ![hnd[t]].lock = t]
  /\ magic_lock' = NoThread
  /\ pc' = [pc EXCEPT ![t] = Body(op[t])]
  /\ UNCHANGED <<op, hnd, input, timeout_arg, sample, cause, cleared, wait_bound, info_h,
                 pushed, ret,
                 status, output, engVars, nops>>
  /\ UNCHANGED <<openVars, otherVars>>

\* g_mutex_lock (&single_h->lock), called with the magic lock held, and the
\* G_UNLOCK (magic) that follows it at once.
g_mutex_lock(t) ==
  /\ pc[t] = "hlock"
  /\ magic_lock = t
  /\ MutexFree(hnd[t])
  /\ single' = [single EXCEPT ![hnd[t]].lock = t]
  /\ magic_lock' = NoThread
  /\ pc' = [pc EXCEPT ![t] = Body(op[t])]
  /\ UNCHANGED <<op, hnd, input, timeout_arg, sample, cause, cleared, wait_bound, info_h,
                 pushed, ret,
                 status, output, engVars, nops>>
  /\ UNCHANGED <<openVars, otherVars>>

\* ------------------------------------------------------- ml_single_invoke
\* Mutant: only the tensor count is compared.
InputValid_CountOnly(h, in) ==
  in.num_tensors = single[h].in_info.num_tensors

\* Input validation: the tensor count and every block's pointer and size.
InputValid(h, in) ==
  /\ in.num_tensors = single[h].in_info.num_tensors
  /\ \A i \in 1..in.num_tensors :
       /\ in.tensors[i].tensor # NULL
       /\ in.tensors[i].size = ml_tensor_info_get_size(single[h].in_info.info[i])

\* Mutant: invoke leaves *output as the caller passed it.
InitOutput_Skipped(out) == out

\* *output = NULL, before anything can fail.
InitOutput(out) == OutputNull

\* *output = NULL, then "Validate input data".
ml_single_invoke_validate(t) ==
  /\ pc[t] = "validate"
  /\ output' = [output EXCEPT ![t] = InitOutput(@)]
  /\ \E in \in Inputs :
       /\ input' = [input EXCEPT ![t] = in]
       /\ IF ~InputValid(hnd[t], in)
            THEN /\ status' = [status EXCEPT ![t] = ML_ERROR_INVALID_PARAMETER]
                 /\ pc' = [pc EXCEPT ![t] = "done"]
            ELSE /\ pc' = [pc EXCEPT ![t] =
                      IF single[hnd[t]].clear_previous_buffer THEN "drain" ELSE "push"]
                 /\ UNCHANGED status
  /\ UNCHANGED <<single, magic_lock, op, hnd, timeout_arg, sample, cause, cleared, wait_bound,
                 info_h, pushed, ret, engVars, nops>>
  /\ UNCHANGED <<openVars, otherVars>>

\* Mutant: the pull made to clear the old buffer does not wait for a sample.
PullSampleReady_NonBlocking(h) == TRUE

\* Mutant: every handle pulls from the appsink of the first pipeline.
SinkOf_Shared(h) == 1

\* GST_APP_SINK (single_h->sink): the appsink of the handle's own pipeline.
SinkOf(h) == h

\* gst_app_sink_pull_sample: blocks until the appsink holds a sample or is at
\* end-of-stream; NULL at end-of-stream with nothing queued.
PullSampleReady(h) == appsink[SinkOf(h)] # <<>> \/ eos[SinkOf(h)]

\* Mutant: the old sample is pulled and dropped, the flag stays set.
ml_single_invoke_clear_old_KeepsFlag(t) ==
  /\ pc[t] = "drain"
  /\ PullSampleReady(hnd[t])
  /\ appsink' = [appsink EXCEPT ![SinkOf(hnd[t])] = <<>>]
  /\ cleared' = [cleared EXCEPT ![t] = TRUE]
  /\ pc' = [pc EXCEPT ![t] = "push"]
  /\ UNCHANGED <<single, magic_lock, op, hnd, input, timeout_arg, sample, cause, wait_bound,
                 info_h, pushed, ret, status, output, appsrc, eos, nops>>
  /\ UNCHANGED <<openVars, otherVars>>

\* "Try to clear old buffer in appsink before pushing the buffer": the pulled
\* sample, if any, is dropped and the flag cleared.
ml_single_invoke_clear_old(t) ==
  /\ pc[t] = "drain"
  /\ PullSampleReady(hnd[t])
  /\ appsink' = [appsink EXCEPT ![SinkOf(hnd[t])] = <<>>]
  /\ single' = [single EXCEPT ![hnd[t]].clear_previous_buffer = FALSE]
  /\ cleared' = [cleared EXCEPT ![t] = TRUE]
  /\ pc' = [pc EXCEPT ![t] = "push"]
  /\ UNCHANGED <<magic_lock, op, hnd, input, timeout_arg, sample, cause, wait_bound, info_h,
                 pushed, ret,
                 status, output, appsrc, eos, nops>>
  /\ UNCHANGED <<openVars, otherVars>>

\* The GstBuffer built from the input: one wrapped memory per tensor.
InputBuffer(id, in) ==
  [id |-> id,
   mems |-> [i \in 1..in.num_tensors |->
               [data |-> in.tensors[i].tensor, size |-> in.tensors[i].size]]]

\* Buffers of a pipeline that still exist: queued before the filter, queued
\* in the appsink, or held as a sample by a call.
LiveIds(h) ==
  {appsrc[h][i].id : i \in 1..Len(appsrc[h])}
  \cup {appsink[h][i].id : i \in 1..Len(appsink[h])}
  \cup {sample[t].id : t \in {u \in Threads : hnd[u] = h}}

\* Identity of a newly built buffer: the least id no live buffer carries.
NewId(h) == CHOOSE i \in 1..(Cardinality(LiveIds(h)) + 1) :
              /\ i \notin LiveIds(h)
              /\ \A j \in 1..(i - 1) : j \in LiveIds(h) \/ j = 0

\* Mutant: every invoke waits with the timeout the handle was opened with.
WaitTimeout_Default(h) == SINGLE_DEFAULT_TIMEOUT

\* The bound of the wait for output: GST_MSECOND * single_h->timeout, read
\* under the mutex of the handle.
WaitTimeout(h) == single[h].timeout

\* gst_app_src_push_buffer: GST_FLOW_OK queues the buffer in the pipeline and
\* the call goes on to gst_app_sink_try_pull_sample with the handle's timeout;
\* any other flow return ends the call with ML_ERROR_STREAMS_PIPE.
\* What gst_app_src_push_buffer may return: the buffer was queued, or the
\* appsrc refused it.
GST_FLOW_OK == "GST_FLOW_OK"
GST_FLOW_ERROR == "GST_FLOW_ERROR"
gst_app_src_push_buffer == {GST_FLOW_OK, GST_FLOW_ERROR}

\* Mutant: the return value of the push is not looked at.
PushFailed_Never(r) == FALSE

\* if (ret != GST_FLOW_OK)
PushFailed(r) == r # GST_FLOW_OK

ml_single_invoke_push(t) ==
  /\ pc[t] = "push"
  /\ \E r \in gst_app_src_push_buffer :
       /\ ret' = [ret EXCEPT ![t] = r]
       /\ IF ~PushFailed(r)
         THEN /\ appsrc' = [appsrc EXCEPT ![hnd[t]] =
                              Append(@, InputBuffer(NewId(hnd[t]), input[t]))]
              /\ pushed' = [pushed EXCEPT ![t] = NewId(hnd[t])]
              /\ wait_bound' = [wait_bound EXCEPT ![t] = WaitTimeout(hnd[t])]
              /\ pc' = [pc EXCEPT ![t] = "wait"]
              /\ UNCHANGED status
         ELSE /\ status' = [status EXCEPT ![t] = ML_ERROR_STREAMS_PIPE]
              /\ pc' = [pc EXCEPT ![t] = "done"]
              /\ UNCHANGED <<appsrc, pushed, wait_bound>>
  /\ UNCHANGED <<single, magic_lock, op, hnd, input, timeout_arg, sample, cause, cleared, output,
                 info_h,
                 appsink, eos, nops>>
  /\ UNCHANGED <<openVars, otherVars>>

\* Outcomes of gst_app_sink_try_pull_sample (sink, timeout): the queued
\* sample; NULL at end-of-stream; NULL once the timeout has elapsed.
TryPullOutcomes(h) ==
  IF appsink[SinkOf(h)] # <<>> THEN {"sample"}
  ELSE IF eos[SinkOf(h)] THEN {"eos"}
  ELSE {"expired"}

\* Mutant: end-of-stream is reported as ML_ERROR_UNKNOWN.
NoSampleStatus_UnknownOnEos(c) ==
  IF c = "eos" THEN ML_ERROR_UNKNOWN ELSE ML_ERROR_TIMED_OUT

\* Mutant: a failed pull leaves clear_previous_buffer as it was.
NoSampleSetsFlag_Never(c) == FALSE

\* Status and flag after the pull returned no sample (timeout-capable build:
\* GStreamer >= 1.10, ML_SINGLE_SUPPORT_TIMEOUT defined).
NoSampleStatus(c) == ML_ERROR_TIMED_OUT
NoSampleSetsFlag(c) == TRUE

\* ml_tensors_data_create (&single_h->out_info, output): a fresh
\* ml_tensors_data_s with one zeroed block per tensor of the descriptor.
ml_tensors_data_create(info) ==
  [ptr |-> "data",
   tensors |-> [i \in 1..info.num_tensors |->
                  [tensor |-> "zeros", size |-> ml_tensor_info_get_size(info.info[i])]]]

\* Mutant: the result is returned as allocated, nothing is copied into it.
CopyResult_NoCopy(result, s) == result

\* "Copy the result": memcpy of mem_info.size bytes of the i-th memory of the
\* sample into the i-th block.  A memory of another size than the block
\* leaves the block part filled or overruns it.
CopyResult(result, s) ==
  [result EXCEPT !.tensors =
     [i \in DOMAIN result.tensors |->
        [result.tensors[i] EXCEPT !.tensor =
           IF s.mems[i].size = result.tensors[i].size
             THEN s.mems[i].data ELSE "corrupt"]]]

\* "Try to get the result": the if (!sample) branch, else "Allocate output
\* buffer" and "Copy the result".
ml_single_invoke_pull(t) ==
  /\ pc[t] = "wait"
  /\ \E c \in TryPullOutcomes(hnd[t]) :
       /\ cause' = [cause EXCEPT ![t] = c]
       /\ IF c = "sample"
            THEN /\ sample' = [sample EXCEPT ![t] = Head(appsink[SinkOf(hnd[t])])]
                 /\ appsink' = [appsink EXCEPT ![SinkOf(hnd[t])] = <<>>]
                 /\ output' = [output EXCEPT ![t] =
                      CopyResult(ml_tensors_data_create(single[hnd[t]].out_info),
                                 Head(appsink[SinkOf(hnd[t])]))]
                 /\ UNCHANGED <<single, status>>
            ELSE /\ single' = [single EXCEPT ![hnd[t]].clear_previous_buffer =
                                 IF NoSampleSetsFlag(c) THEN TRUE ELSE @]
                 /\ status' = [status EXCEPT ![t] = NoSampleStatus(c)]
                 /\ UNCHANGED <<sample, appsink, output>>
  /\ pc' = [pc EXCEPT ![t] = "done"]
  /\ UNCHANGED <<magic_lock, op, hnd, input, timeout_arg, cleared, wait_bound, info_h, pushed, ret,
                 appsrc, eos, nops>>
  /\ UNCHANGED <<openVars, otherVars>>

\* Mutant: done: returns status with the mutex still locked.
g_mutex_unlock_return_NoUnlock(t) ==
  /\ pc[t] = "done"
  /\ Return(t, status[t])
  /\ UNCHANGED <<single, magic_lock, engVars, nops>>
  /\ UNCHANGED <<openVars, otherVars>>

\* done: of ml_single_invoke: g_mutex_unlock (&single_h->lock); return status.
g_mutex_unlock_return(t) ==
  /\ pc[t] = "done"
  /\ single' = [single EXCEPT ![hnd[t]].lock = NoThread]
  /\ Return(t, status[t])
  /\ UNCHANGED <<magic_lock, engVars, nops>>
  /\ UNCHANGED <<openVars, otherVars>>

\* ------------------------------- ml_single_get_tensors_info, set_timeout
\* The body runs under the per-handle mutex and ends with g_mutex_unlock and
\* return status.
\* ml_single_get_tensors_info_from_filter (single_h->filter, is_input, info):
\* a new descriptor filled from the properties of the filter.
ml_single_get_tensors_info_from_filter(h, is_input) ==
  [is_input |-> is_input, info |-> FilterProperties(h, is_input)]

ml_single_get_tensors_info(t) ==
  /\ pc[t] = "getinfo"
  /\ \E is_input \in BOOLEAN :
       info_h' = [info_h EXCEPT ![t] =
                    ml_single_get_tensors_info_from_filter(hnd[t], is_input)]
  /\ pc' = [pc EXCEPT ![t] = "gotinfo"]
  /\ UNCHANGED <<single, magic_lock, op, hnd, input, timeout_arg, sample, cause, cleared,
                 wait_bound, pushed, ret, status, output, engVars, nops>>
  /\ UNCHANGED <<openVars, otherVars>>

\* g_mutex_unlock (&single_h->lock); return status.
ml_single_get_tensors_info_return(t) ==
  /\ pc[t] = "gotinfo"
  /\ single' = [single EXCEPT ![hnd[t]].lock = NoThread]
  /\ Return(t, status[t])
  /\ UNCHANGED <<magic_lock, engVars, nops>>
  /\ UNCHANGED <<openVars, otherVars>>

ml_single_set_timeout(t) ==
  /\ pc[t] = "settimeout"
  /\ single' = [single EXCEPT ![hnd[t]] =
                  [@ EXCEPT !.timeout = timeout_arg[t], !.lock = NoThread]]
  /\ Return(t, status[t])
  /\ UNCHANGED <<magic_lock, engVars, nops>>
  /\ UNCHANGED <<openVars, otherVars>>

\* -------------------------------------------------------- ml_single_close
\* gst_object_unref of src, sink and filter, each set to NULL, and
\* ml_tensors_info_free of the two descriptors.
ReleaseStages(s) ==
  [s EXCEPT !.src = NULL, !.sink = NULL, !.filter = NULL,
            !.in_info = FreedInfo, !.out_info = FreedInfo]

\* ml_pipeline_destroy (single_h->pipe).
DestroyPipeline(s) == [s EXCEPT !.pipe = NULL]

\* g_mutex_unlock and g_mutex_clear of the per-handle mutex.
ReleaseLock(s) == [s EXCEPT !.lock = NoThread]

\* g_free (single_h).
FreeHandle(s) == [s EXCEPT !.freed = TRUE]

\* The body of ml_single_close after the mutex has been taken: unref src,
\* sink and filter, free the descriptors, destroy the pipeline; then
\* g_mutex_unlock, g_mutex_clear, g_free (single_h).
CloseTeardown(s) == FreeHandle(ReleaseLock(DestroyPipeline(ReleaseStages(s))))

\* What the calling thread keeps while it goes through ml_single_close.
CloseLocals ==
  <<op, hnd, input, timeout_arg, sample, cause, cleared, wait_bound, info_h, pushed, ret, status,
    output>>

ml_single_close_teardown(t) ==
  /\ pc[t] = "teardown"
  /\ single' = [single EXCEPT ![hnd[t]] = ReleaseStages(@)]
  /\ pc' = [pc EXCEPT ![t] = "destroy"]
  /\ UNCHANGED <<CloseLocals, magic_lock, engVars, nops>>
  /\ UNCHANGED <<openVars, otherVars>>

ml_single_close_destroy(t) ==
  /\ pc[t] = "destroy"
  /\ single' = [single EXCEPT ![hnd[t]] = DestroyPipeline(@)]
  /\ appsrc' = [appsrc EXCEPT ![hnd[t]] = <<>>]
  /\ appsink' = [appsink EXCEPT ![hnd[t]] = <<>>]
  /\ pc' = [pc EXCEPT ![t] = "unlock"]
  /\ UNCHANGED <<CloseLocals, magic_lock, eos, nops>>
  /\ UNCHANGED <<openVars, otherVars>>

ml_single_close_unlock(t) ==
  /\ pc[t] = "unlock"
  /\ single' = [single EXCEPT ![hnd[t]] = ReleaseLock(@)]
  /\ pc' = [pc EXCEPT ![t] = "free"]
  /\ UNCHANGED <<CloseLocals, magic_lock, engVars, nops>>
  /\ UNCHANGED <<openVars, otherVars>>

ml_single_close_free(t) ==
  /\ pc[t] = "free"
  /\ single' = [single EXCEPT ![hnd[t]] = FreeHandle(@)]
  /\ Return(t, status[t])
  /\ UNCHANGED <<magic_lock, engVars, nops>>
  /\ UNCHANGED <<openVars, otherVars>>

\* --------------------------------------------------------- ml_single_open
ML_ERROR_NOT_SUPPORTED == "ML_ERROR_NOT_SUPPORTED"

ML_NNFW_TYPE_ANY == "ML_NNFW_TYPE_ANY"
ML_NNFW_TYPE_CUSTOM_FILTER == "ML_NNFW_TYPE_CUSTOM_FILTER"
ML_NNFW_TYPE_TENSORFLOW_LITE == "ML_NNFW_TYPE_TENSORFLOW_LITE"
ML_NNFW_TYPE_TENSORFLOW == "ML_NNFW_TYPE_TENSORFLOW"
ML_NNFW_TYPE_NNFW == "ML_NNFW_TYPE_NNFW"
\* Any value of nnfw that the switch statements do not name (default:).
ML_NNFW_TYPE_UNNAMED == "ML_NNFW_TYPE_UNNAMED"
NnfwTypes == {ML_NNFW_TYPE_ANY, ML_NNFW_TYPE_CUSTOM_FILTER, ML_NNFW_TYPE_TENSORFLOW_LITE,
              ML_NNFW_TYPE_TENSORFLOW, ML_NNFW_TYPE_NNFW, ML_NNFW_TYPE_UNNAMED}

\* Strings are sequences of characters.
UpperChars == <<"A", "B", "C", "D", "E", "F", "G", "H", "I", "J", "K", "L", "M",
                "N", "O", "P", "Q", "R", "S", "T", "U", "V", "W", "X", "Y", "Z">>
LowerChars == <<"a", "b", "c", "d", "e", "f", "g", "h", "i", "j", "k", "l", "m",
                "n", "o", "p", "q", "r", "s", "t", "u", "v", "w", "x", "y", "z">>

g_ascii_tolower(c) ==
  IF \E i \in DOMAIN UpperChars : UpperChars[i] = c
    THEN LowerChars[CHOOSE i \in DOMAIN UpperChars : UpperChars[i] = c]
    ELSE c

\* Mutant: the path is compared as given, upper case letters included.
g_ascii_strdown_AsGiven(str) == str

g_ascii_strdown(str) == [i \in 1..Len(str) |-> g_ascii_tolower(str[i])]

\* Mutant: every path is taken to end with the suffix.
g_str_has_suffix_Always(str, suffix) == TRUE

g_str_has_suffix(str, suffix) ==
  /\ Len(str) >= Len(suffix)
  /\ SubSeq(str, Len(str) - Len(suffix) + 1, Len(str)) = suffix

TFLITE_SUFFIX == <<".", "t", "f", "l", "i", "t", "e">>
PB_SUFFIX == <<".", "p", "b">>
NNSTREAMER_SO_FILE_EXTENSION == <<".", "s", "o">>

\* Model paths a caller may pass; NullPath stands for model == NULL.
NullPath == <<>>
ModelPaths ==
  { <<"m", ".", "t", "f", "l", "i", "t", "e">>,
    <<"m", ".", "T", "F", "L", "i", "t", "e">>,
    <<"m", ".", "p", "b">>,
    <<"m", ".", "P", "B">>,
    <<"m", ".", "s", "o">>,
    <<"m", ".", "S", "o">>,
    <<"m", ".", "t", "x", "t">>,
    <<"m", ".", "p", "b", ".", "b", "a", "k">>,
    <<"m", "t", "f", "l", "i", "t", "e">>,
    <<"m">> }

\* ml_tensors_info_h arguments: NULL, two valid descriptors, and descriptors
\* with a zero dimension, with an unknown type and with no tensor.
NullInfo == [given |-> FALSE, info |-> FreedInfo]
InfoArgs ==
  { NullInfo,
    [given |-> TRUE, info |-> [num_tensors |-> 1, info |-> <<Uint8Image>>]],
    [given |-> TRUE, info |-> [num_tensors |-> 1, info |-> <<Float32Scores>>]],
    [given |-> TRUE,
     info |-> [num_tensors |-> 1,
               info |-> <<[name |-> NULL, type |-> "uint8", dimension |-> <<1, 0, 28, 1>>]>>]],
    [given |-> TRUE,
     info |-> [num_tensors |-> 1,
               info |-> <<[name |-> NULL, type |-> "unknown", dimension |-> <<1, 10, 1, 1>>]>>]],
    [given |-> TRUE, info |-> FreedInfo] }

\* What a tensor_filter may report about its model in its input/output
\* properties; a backend that cannot describe itself reports nothing.
SelfReports ==
  { [num_tensors |-> 1, info |-> <<Uint8Image>>],
    [num_tensors |-> 1, info |-> <<Float32Scores>>],
    FreedInfo }

\* ml_tensors_info_validate: at least one tensor, every tensor of a known
\* type with positive dimensions.
ml_tensors_info_validate(info) ==
  /\ info.num_tensors >= 1
  /\ \A i \in 1..info.num_tensors :
       /\ ml_tensor_element_size(info.info[i].type) > 0
       /\ \A d \in 1..ML_TENSOR_RANK_LIMIT : info.info[i].dimension[d] > 0

OpenArgs ==
  [single : {NULL, "single"}, model : ModelPaths \cup {NullPath},
   input_info : InfoArgs, output_info : InfoArgs, nnfw : NnfwTypes]

\* Everything ml_single_open allocates or takes a reference to.
Resources == {"path_down", "pipeline_desc", "pipe", "src", "sink", "filter",
              "single_h", "lock", "in_info", "out_info", "info_h", "caps"}

\* The ml_single before g_new0 has made it.
NoSingle ==
  [ magic |-> MAGIC_CLEARED,
    pipe |-> NULL, src |-> NULL, sink |-> NULL, filter |-> NULL,
    in_info |-> FreedInfo, out_info |-> FreedInfo,
    lock |-> NoThread,
    clear_previous_buffer |-> FALSE,
    timeout |-> 0,
    freed |-> FALSE ]

\* An appsink as gst_parse_launch makes it: max-buffers 0 (unlimited), drop
\* FALSE; playing once the pipeline has been started; arrived counts the
\* samples that have reached it.
AppsinkDefaults == [max_buffers |-> 0, drop |-> FALSE]
NoSink == [props |-> AppsinkDefaults, playing |-> FALSE, queue |-> <<>>, arrived |-> 0]

\* Mutant: the appsink is left as it was made.
SinkProps_Default == AppsinkDefaults

\* gst_app_sink_set_max_buffers (appsink, 1); gst_app_sink_set_drop (appsink, TRUE).
SinkProps == [max_buffers |-> 1, drop |-> TRUE]

\* The appsink of an opened handle, as ml_single_open set it.
OpenedSink == [max_buffers |-> SinkProps.max_buffers, drop |-> SinkProps.drop]

\* A full appsink that does not drop makes the streaming thread wait.
AppsinkBlocks(props, queue) ==
  props.max_buffers > 0 /\ Len(queue) >= props.max_buffers /\ ~props.drop

\* A sample reaches an appsink that does not block: it is queued, after the
\* oldest queued sample has been dropped when the queue is full.
AppsinkEnqueue(props, queue, s) ==
  IF props.max_buffers > 0 /\ Len(queue) >= props.max_buffers
    THEN Append(Tail(queue), s)
    ELSE Append(queue, s)

\* The filter has not been asked for either direction.
Unasked == [num_tensors |-> -1, info |-> <<>>]
NoReport == [input |-> Unasked, output |-> Unasked]

apiVars == <<single, magic_lock, thrVars, engVars, nops>>

\* No ml_single_open is in progress.
OpenIdle ==
  /\ open_pc = "none"
  /\ open_args = [single |-> NULL, model |-> NullPath, input_info |-> NullInfo,
                  output_info |-> NullInfo, nnfw |-> ML_NNFW_TYPE_ANY]
  /\ open_nnfw = ML_NNFW_TYPE_ANY
  /\ open_status = ML_ERROR_NONE
  /\ available = UNINIT
  /\ reported = NoReport
  /\ open_sink = NoSink
  /\ open_single = UNINIT
  /\ single_h = NoSingle
  /\ res = [r \in Resources |-> "none"]

\* A caller enters ml_single_open with some arguments.
OpenStart ==
  /\ open_pc = "start"
  /\ open_args \in OpenArgs
  /\ open_nnfw = open_args.nnfw
  /\ open_status = ML_ERROR_NONE
  /\ available = UNINIT
  /\ reported = NoReport
  /\ open_sink = NoSink
  /\ open_single = UNINIT
  /\ single_h = NoSingle
  /\ res = [r \in Resources |-> "none"]

\* ----------------------------------- ml_single_invoke: "Copy the result"
\* Byte sizes a memory of the pulled buffer may have.
MemSizes == {40, 784}

\* Buffers of up to n memories.
RECURSIVE BuffersUpTo(_)
BuffersUpTo(n) ==
  IF n = 0 THEN {<<>>}
  ELSE LET shorter == BuffersUpTo(n - 1) IN
         shorter \cup {Append(b, [size |-> sz]) : b \in {x \in shorter : Len(x) = n - 1},
                                                  sz \in MemSizes}

\* Output descriptors a handle may have negotiated.
CopyInfos == {OutInfo(1), OutInfo(2), InInfo(2)}

\* No copy is in progress.
CopyIdle ==
  /\ cp_pc = "none"
  /\ cp_info = FreedInfo
  /\ cp_buffer = <<>>
  /\ cp_i = 0
  /\ cp_result = <<>>

\* The pull returned a sample; its buffer has some memories of some sizes.
CopyStart ==
  /\ cp_pc = "allocate"
  /\ cp_info \in CopyInfos
  /\ cp_buffer \in BuffersUpTo(MaxMems)
  /\ cp_i = 0
  /\ cp_result = <<>>

\* -------------------------------------------------- subplugin registry
RegThreads == {1, 2}
SubpluginNames == {"custom_a", "custom_b"}

\* Nothing registered: subplugins[type] is NULL, nobody is in a call.
RegIdle ==
  /\ splock = NoThread
  /\ sp_table = 0
  /\ sp_tables = <<>>
  /\ sp_pc = [t \in RegThreads |-> "idle"]
  /\ sp_op = [t \in RegThreads |-> "none"]
  /\ sp_name = [t \in RegThreads |-> NULL]
  /\ sp_ret = [t \in RegThreads |-> UNINIT]
  /\ sp_in_get = [t \in RegThreads |-> FALSE]
  /\ sp_nops = 0

\* ------------------------------------------------ tensor query client
\* The two object flags of the element.
GST_TENSOR_QUERY_CLIENT_SINK_SOCKET_OPEN == "SINK_SOCKET_OPEN"
GST_TENSOR_QUERY_CLIENT_SRC_SOCKET_OPEN == "SRC_SOCKET_OPEN"

TCP_DEFAULT_SINK_PORT == 3000
TCP_DEFAULT_SRC_PORT == 3001

\* gst_tensor_query_client_init: default ports, both sockets NULL, both
\* flags unset.
QueryIdle ==
  /\ qc_sink_socket = 0
  /\ qc_src_socket = 0
  /\ qc_sink_port = TCP_DEFAULT_SINK_PORT
  /\ qc_src_port = TCP_DEFAULT_SRC_PORT
  /\ qc_flags = {}
  /\ qc_sockets = <<>>
  /\ qc_pc = "idle"
  /\ qc_op = "none"
  /\ qc_ret = UNINIT

\* ------------------------------------------------------ nnstreamer_conf
CONF_SOURCES == 3

\* A file name is a string of three pieces: the prefix, the subplugin name
\* and the extension.
NNSTREAMER_PREFIX_FILTER == <<"libnnstreamer_filter_">>
NNSTREAMER_PREFIX_DECODER == <<"libnnstreamer_decoder_">>
SO_EXTENSION == <<".so">>
g_strconcat(prefix, name, ext) == prefix \o <<name>> \o ext
g_str_has_prefix(str, prefix) ==
  /\ Len(str) >= Len(prefix)
  /\ SubSeq(str, 1, Len(prefix)) = prefix

\* The names found in the directories, in the order g_dir_read_name gives.
Filenames ==
  <<g_strconcat(NNSTREAMER_PREFIX_FILTER, "custom_a", SO_EXTENSION),
    g_strconcat(NNSTREAMER_PREFIX_DECODER, "custom_a", SO_EXTENSION)>>
FileKinds == {"regular", "symlink", "directory"}
DirEntries == [name : {Filenames[k] : k \in 1..Len(Filenames)}, kind : FileKinds]
FilePos(name) == CHOOSE k \in 1..Len(Filenames) : Filenames[k] = name
Listings ==
  {l \in UNION {[1..n -> DirEntries] : n \in 0..MaxEntries} :
     \A j, k \in 1..Len(l) : j < k => FilePos(l[j].name) < FilePos(l[k].name)}

\* The three sources in the order of pathFILTERS[]: 1 the environment
\* variable, 2 the configuration file, 3 the hardcoded directory.  The first
\* two may be unset (NULL); the hardcoded path is always a string.
SourceDirs == <<"/env", "/conf", "/hardcoded">>
SearchPaths ==
  {sp \in [1..CONF_SOURCES -> [configured : BOOLEAN, entries : Listings]] :
     /\ sp[CONF_SOURCES].configured
     /\ \A k \in 1..CONF_SOURCES : ~sp[k].configured => sp[k].entries = <<>>}

\* The NULL of a const gchar * result.
NoPath == [dir |-> NULL, name |-> <<>>]

\* conf.loaded is FALSE and nobody asked: the other components' start.
ConfIdle ==
  /\ cf_search = [k \in 1..CONF_SOURCES |-> [configured |-> k = CONF_SOURCES, entries |-> <<>>]]
  /\ cf_pc = "idle"
  /\ cf_i = 1
  /\ cf_lstF = <<>>
  /\ cf_lstB = <<>>
  /\ cf_files = <<>>
  /\ cf_basenames = <<>>
  /\ cf_name = NULL
  /\ cf_ret = NoPath

\* nnsconf_loadconf has read the three sources and enters _fill_in_vstr.
ConfStart ==
  /\ cf_search \in SearchPaths
  /\ cf_pc = "scan"
  /\ cf_i = 1
  /\ cf_lstF = <<>>
  /\ cf_lstB = <<>>
  /\ cf_files = <<>>
  /\ cf_basenames = <<>>
  /\ cf_name = NULL
  /\ cf_ret = NoPath

RestIdle == RegIdle /\ QueryIdle /\ ConfIdle

ConfInit == ApiInit /\ OpenIdle /\ CopyIdle /\ RegIdle /\ QueryIdle /\ ConfStart

OtherIdle == CopyIdle /\ RestIdle

Init == ApiInit /\ OpenIdle /\ OtherIdle

OpenInit == ApiInit /\ OpenStart /\ OtherIdle

CopyInit == ApiInit /\ OpenIdle /\ CopyStart /\ RestIdle

\* return status.
OpenReturn(st) ==
  /\ open_pc' = "returned"
  /\ open_status' = st

\* Mutant: the descriptors passed in are taken as they are.
ml_single_open_validate_NoInfoTest ==
  /\ open_pc = "start"
  /\ IF open_args.single = NULL
       THEN OpenReturn(ML_ERROR_INVALID_PARAMETER) /\ UNCHANGED open_single
       ELSE /\ open_single' = NULL
            /\ \E gst_init_ok \in BOOLEAN, is_regular \in BOOLEAN :
                 IF ~gst_init_ok
                   THEN OpenReturn(ML_ERROR_STREAMS_PIPE)
                 ELSE IF open_args.model = NullPath \/ ~is_regular
                   THEN OpenReturn(ML_ERROR_INVALID_PARAMETER)
                 ELSE open_pc' = "nnfw" /\ UNCHANGED open_status
  /\ UNCHANGED <<open_args, open_nnfw, single_h, res, available, reported,
                 open_sink, apiVars, otherVars>>

\* "Validate the params": single, *single = NULL, gst_init_check, the two
\* descriptors, the model file.
ml_single_open_validate ==
  /\ open_pc = "start"
  /\ IF open_args.single = NULL
       THEN OpenReturn(ML_ERROR_INVALID_PARAMETER) /\ UNCHANGED open_single
       ELSE /\ open_single' = NULL
            /\ \E gst_init_ok \in BOOLEAN, is_regular \in BOOLEAN :
                 IF ~gst_init_ok
                   THEN OpenReturn(ML_ERROR_STREAMS_PIPE)
                 ELSE IF \/ open_args.input_info.given
                            /\ ~ml_tensors_info_validate(open_args.input_info.info)
                         \/ open_args.output_info.given
                            /\ ~ml_tensors_info_validate(open_args.output_info.info)
                         \/ open_args.model = NullPath
                         \/ ~is_regular
                   THEN OpenReturn(ML_ERROR_INVALID_PARAMETER)
                 ELSE open_pc' = "nnfw" /\ UNCHANGED open_status
  /\ UNCHANGED <<open_args, open_nnfw, single_h, res, available, reported,
                 open_sink, apiVars, otherVars>>

\* "1. Determine nnfw": the switch over nnfw on the lower-cased path.  The
\* result is the framework to use and the status.
DetermineNnfw(nnfw, path_down) ==
  CASE nnfw = ML_NNFW_TYPE_ANY ->
         IF g_str_has_suffix(path_down, TFLITE_SUFFIX)
           THEN [nnfw |-> ML_NNFW_TYPE_TENSORFLOW_LITE, status |-> ML_ERROR_NONE]
         ELSE IF g_str_has_suffix(path_down, PB_SUFFIX)
           THEN [nnfw |-> ML_NNFW_TYPE_TENSORFLOW, status |-> ML_ERROR_NONE]
         ELSE IF g_str_has_suffix(path_down, NNSTREAMER_SO_FILE_EXTENSION)
           THEN [nnfw |-> ML_NNFW_TYPE_CUSTOM_FILTER, status |-> ML_ERROR_NONE]
         ELSE [nnfw |-> nnfw, status |-> ML_ERROR_INVALID_PARAMETER]
    [] nnfw = ML_NNFW_TYPE_CUSTOM_FILTER ->
         [nnfw |-> nnfw,
          status |-> IF g_str_has_suffix(path_down, NNSTREAMER_SO_FILE_EXTENSION)
                       THEN ML_ERROR_NONE ELSE ML_ERROR_INVALID_PARAMETER]
    [] nnfw = ML_NNFW_TYPE_TENSORFLOW_LITE ->
         [nnfw |-> nnfw,
          status |-> IF g_str_has_suffix(path_down, TFLITE_SUFFIX)
                       THEN ML_ERROR_NONE ELSE ML_ERROR_INVALID_PARAMETER]
    [] nnfw = ML_NNFW_TYPE_TENSORFLOW ->
         [nnfw |-> nnfw,
          status |-> IF g_str_has_suffix(path_down, PB_SUFFIX)
                       THEN ML_ERROR_NONE ELSE ML_ERROR_INVALID_PARAMETER]
    [] nnfw = ML_NNFW_TYPE_NNFW ->
         [nnfw |-> nnfw, status |-> ML_ERROR_NOT_SUPPORTED]
    [] OTHER -> [nnfw |-> nnfw, status |-> ML_ERROR_NONE]

\* path_down = g_ascii_strdown (model), the switch, g_free (path_down).
ml_single_open_nnfw ==
  /\ open_pc = "nnfw"
  /\ LET d == DetermineNnfw(open_nnfw, g_ascii_strdown(open_args.model)) IN
       /\ open_nnfw' = d.nnfw
       /\ IF d.status # ML_ERROR_NONE
            THEN OpenReturn(d.status)
            ELSE open_pc' = "hw" /\ UNCHANGED open_status
  /\ res' = [res EXCEPT !["path_down"] = "freed"]
  /\ UNCHANGED <<open_args, open_single, single_h, available, reported,
                 open_sink, apiVars, otherVars>>

\* Mutant: a framework that is not available is reported as a bad argument.
ml_single_open_hw_Unavailable_Invalid ==
  /\ open_pc = "hw"
  /\ \E outcome \in {"error", "unavailable", "available"} :
       CASE outcome = "error" ->
              OpenReturn(ML_ERROR_INVALID_PARAMETER) /\ UNCHANGED available
         [] outcome = "unavailable" ->
              OpenReturn(ML_ERROR_INVALID_PARAMETER) /\ available' = "false"
         [] OTHER ->
              open_pc' = "construct" /\ available' = "true" /\ UNCHANGED open_status
  /\ UNCHANGED <<open_args, open_nnfw, open_single, single_h, res, reported, open_sink,
                 apiVars, otherVars>>

\* "2. Determine hw": ml_check_nnfw_availability fails, reports the framework
\* unavailable, or reports it available.
ml_single_open_hw ==
  /\ open_pc = "hw"
  /\ \E outcome \in {"error", "unavailable", "available"} :
       CASE outcome = "error" ->
              OpenReturn(ML_ERROR_INVALID_PARAMETER) /\ UNCHANGED available
         [] outcome = "unavailable" ->
              OpenReturn(ML_ERROR_NOT_SUPPORTED) /\ available' = "false"
         [] OTHER ->
              open_pc' = "construct" /\ available' = "true" /\ UNCHANGED open_status
  /\ UNCHANGED <<open_args, open_nnfw, open_single, single_h, res, reported, open_sink,
                 apiVars, otherVars>>

\* Mutant: the tensorflow pipeline is described without asking for the two
\* descriptors.
ml_single_open_construct_NoDescriptorTest ==
  /\ open_pc = "construct"
  /\ IF open_nnfw \notin {ML_NNFW_TYPE_CUSTOM_FILTER, ML_NNFW_TYPE_TENSORFLOW_LITE,
                          ML_NNFW_TYPE_TENSORFLOW}
       THEN OpenReturn(ML_ERROR_NOT_SUPPORTED) /\ UNCHANGED res
     ELSE \E constructed \in BOOLEAN :
            IF constructed
              THEN /\ res' = [res EXCEPT !["pipeline_desc"] = "freed", !["pipe"] = "live"]
                   /\ open_pc' = "allocate"
                   /\ UNCHANGED open_status
              ELSE /\ res' = [res EXCEPT !["pipeline_desc"] = "freed"]
                   /\ OpenReturn(ML_ERROR_STREAMS_PIPE)
  /\ UNCHANGED <<open_args, open_nnfw, open_single, single_h, available, reported,
                 open_sink, apiVars, otherVars>>

\* "3. Construct a pipeline": the description for the framework, then
\* ml_pipeline_construct and g_free (pipeline_desc).
ml_single_open_construct ==
  /\ open_pc = "construct"
  /\ IF open_nnfw = ML_NNFW_TYPE_TENSORFLOW
        /\ ~(open_args.input_info.given /\ open_args.output_info.given)
       THEN OpenReturn(ML_ERROR_INVALID_PARAMETER) /\ UNCHANGED res
     ELSE IF open_nnfw \notin {ML_NNFW_TYPE_CUSTOM_FILTER, ML_NNFW_TYPE_TENSORFLOW_LITE,
                               ML_NNFW_TYPE_TENSORFLOW}
       THEN OpenReturn(ML_ERROR_NOT_SUPPORTED) /\ UNCHANGED res
     ELSE \E constructed \in BOOLEAN :
            IF constructed
              THEN /\ res' = [res EXCEPT !["pipeline_desc"] = "freed", !["pipe"] = "live"]
                   /\ open_pc' = "allocate"
                   /\ UNCHANGED open_status
              ELSE /\ res' = [res EXCEPT !["pipeline_desc"] = "freed"]
                   /\ OpenReturn(ML_ERROR_STREAMS_PIPE)
  /\ UNCHANGED <<open_args, open_nnfw, open_single, single_h, available, reported,
                 open_sink, apiVars, otherVars>>

\* "4. Allocate": the three elements by name, the zeroed ml_single and its
\* fields, the mutex.
ml_single_open_allocate ==
  /\ open_pc = "allocate"
  /\ single_h' = [NoSingle EXCEPT !.magic = ML_SINGLE_MAGIC, !.pipe = "pipe",
                                   !.src = "srcx", !.sink = "sinkx", !.filter = "filterx",
                                   !.timeout = SINGLE_DEFAULT_TIMEOUT,
                                   !.clear_previous_buffer = FALSE]
  /\ res' = [res EXCEPT !["src"] = "live", !["sink"] = "live", !["filter"] = "live",
                        !["single_h"] = "live", !["lock"] = "live"]
  /\ open_pc' = "in_info"
  /\ UNCHANGED <<open_args, open_nnfw, open_status, open_single, available, reported,
                 open_sink, apiVars, otherVars>>

\* "5. Set in/out caps and metadata", one direction: the caller's descriptor
\* is cloned if given; else the filter is asked and its answer validated.
\* The result is the descriptor stored and the status.
\* Mutant: what the filter reports is stored without being validated.
NegotiateInfo_Unchecked(arg, props) ==
  IF arg.given
    THEN [info |-> arg.info, status |-> ML_ERROR_NONE, asked |-> FALSE]
    ELSE [info |-> props, status |-> ML_ERROR_NONE, asked |-> TRUE]

NegotiateInfo(arg, props) ==
  IF arg.given
    THEN [info |-> arg.info, status |-> ML_ERROR_NONE, asked |-> FALSE]
    ELSE [info |-> props,
          status |-> IF ml_tensors_info_validate(props)
                       THEN ML_ERROR_NONE ELSE ML_ERROR_INVALID_PARAMETER,
          asked |-> TRUE]

ml_single_open_in_info ==
  /\ open_pc = "in_info"
  /\ \E props \in SelfReports :
       LET n == NegotiateInfo(open_args.input_info, props) IN
         /\ single_h' = [single_h EXCEPT !.in_info = n.info]
         /\ reported' = IF n.asked THEN [reported EXCEPT !.input = props] ELSE reported
         /\ open_status' = n.status
         /\ open_pc' = IF n.status = ML_ERROR_NONE THEN "out_info" ELSE "error"
         /\ res' = [res EXCEPT !["in_info"] = "live",
                               !["info_h"] = IF n.asked THEN "freed" ELSE @,
                               !["caps"] = IF n.status = ML_ERROR_NONE THEN "freed" ELSE @]
  /\ UNCHANGED <<open_args, open_nnfw, open_single, available, open_sink, apiVars, otherVars>>

ml_single_open_out_info ==
  /\ open_pc = "out_info"
  /\ \E props \in SelfReports :
       LET n == NegotiateInfo(open_args.output_info, props) IN
         /\ single_h' = [single_h EXCEPT !.out_info = n.info]
         /\ reported' = IF n.asked THEN [reported EXCEPT !.output = props] ELSE reported
         /\ open_status' = n.status
         /\ open_pc' = IF n.status = ML_ERROR_NONE THEN "set_sink" ELSE "error"
         /\ res' = [res EXCEPT !["out_info"] = "live",
                               !["info_h"] = IF n.asked THEN "freed" ELSE @,
                               !["caps"] = IF n.status = ML_ERROR_NONE THEN "freed" ELSE @]
  /\ UNCHANGED <<open_args, open_nnfw, open_single, available, open_sink, apiVars, otherVars>>

\* set max buffer in appsink (default unlimited) and drop old buffer.
ml_single_open_set_sink ==
  /\ open_pc = "set_sink"
  /\ open_sink' = [open_sink EXCEPT !.props = SinkProps]
  /\ open_pc' = "start_pipeline"
  /\ UNCHANGED <<open_args, open_nnfw, open_status, open_single, single_h, res, available,
                 reported, apiVars, otherVars>>

\* "6. Start pipeline".
ml_single_open_start ==
  /\ open_pc = "start_pipeline"
  /\ \E started \in BOOLEAN :
       /\ open_status' = IF started THEN ML_ERROR_NONE ELSE ML_ERROR_STREAMS_PIPE
       /\ open_sink' = [open_sink EXCEPT !.playing = started]
  /\ open_pc' = "error"
  /\ UNCHANGED <<open_args, open_nnfw, open_single, single_h, res, available, reported,
                 apiVars, otherVars>>

\* The started pipeline hands a sample to its appsink.
open_pipeline_deliver ==
  /\ open_sink.playing
  /\ open_sink.arrived < MaxArrivals
  /\ ~AppsinkBlocks(open_sink.props, open_sink.queue)
  /\ open_sink' = [open_sink EXCEPT
                     !.queue = AppsinkEnqueue(open_sink.props, @, [id |-> open_sink.arrived + 1]),
                     !.arrived = @ + 1]
  /\ UNCHANGED <<open_pc, open_args, open_nnfw, open_status, open_single, single_h, res, available,
                 reported, apiVars, otherVars>>

\* What ml_single_close releases: the element references, the descriptors,
\* the pipeline, the mutex and the handle itself.
ReleasedByClose == {"src", "sink", "filter", "in_info", "out_info", "pipe", "lock", "single_h"}

\* Mutant: a failed open returns without closing what it built.
ml_single_open_error_NoClose ==
  /\ open_pc = "error"
  /\ open_single' = IF open_status = ML_ERROR_NONE THEN "single_h" ELSE open_single
  /\ OpenReturn(open_status)
  /\ UNCHANGED <<open_args, open_nnfw, single_h, res, available, reported,
                 open_sink, apiVars, otherVars>>

\* error: ml_single_close (single_h) on failure, *single = single_h on
\* success; return status.
ml_single_open_error ==
  /\ open_pc = "error"
  /\ IF open_status # ML_ERROR_NONE
       THEN /\ MagicLockFree
            /\ single_h.magic = ML_SINGLE_MAGIC /\ single_h.lock = NoThread
            /\ single_h' = CloseTeardown([single_h EXCEPT !.magic = MAGIC_CLEARED])
            /\ res' = [r \in Resources |->
                         IF r \in ReleasedByClose /\ res[r] = "live" THEN "freed" ELSE res[r]]
            /\ open_sink' = [open_sink EXCEPT !.playing = FALSE, !.queue = <<>>]
            /\ UNCHANGED open_single
       ELSE /\ open_single' = "single_h"
            /\ UNCHANGED <<single_h, res, open_sink>>
  /\ OpenReturn(open_status)
  /\ UNCHANGED <<open_args, open_nnfw, available, reported,
                 apiVars, otherVars>>

OpenNext ==
  \/ ml_single_open_validate
  \/ ml_single_open_nnfw
  \/ ml_single_open_hw
  \/ ml_single_open_construct
  \/ ml_single_open_allocate
  \/ ml_single_open_in_info
  \/ ml_single_open_out_info
  \/ ml_single_open_set_sink
  \/ ml_single_open_start
  \/ open_pipeline_deliver
  \/ ml_single_open_error

OpenSpec == OpenInit /\ [][OpenNext]_vars

\* ------------------------------------------------- the streaming pipeline
\* tensor_filter name=filterx of handle h turns the buffer pushed for call id
\* into the result for id: one memory per output tensor of the model.
FilterResult(h, buf) ==
  [id |-> buf.id, by |-> h,
   mems |-> IF IdentityBackend(h)
              THEN buf.mems
              ELSE [i \in 1..OutInfo(h).num_tensors |->
                      [data |-> "scores",
                       size |-> ml_tensor_info_get_size(OutInfo(h).info[i])]]]

\* The pipeline filters the oldest pushed buffer and hands it to the appsink.
pipeline_deliver(h) ==
  /\ single[h].pipe # NULL
  /\ ~eos[h]
  /\ appsrc[h] # <<>>
  /\ ~AppsinkBlocks(OpenedSink, appsink[h])
  /\ appsink' = [appsink EXCEPT ![h] =
                    AppsinkEnqueue(OpenedSink, @, FilterResult(h, Head(appsrc[h])))]
  /\ appsrc' = [appsrc EXCEPT ![h] = Tail(@)]
  /\ UNCHANGED <<single, magic_lock, thrVars, eos, nops>>
  /\ UNCHANGED <<openVars, otherVars>>

\* The appsink reaches end-of-stream (EOS event or a pipeline error).  The API
\* observes end-of-stream only through a pull, so the event is taken at a
\* moment a call on the handle is pulling.
pipeline_eos(h) ==
  /\ single[h].pipe # NULL
  /\ ~eos[h]
  /\ \E t \in Threads : hnd[t] = h /\ pc[t] \in {"drain", "wait"}
  /\ eos' = [eos EXCEPT ![h] = TRUE]
  /\ UNCHANGED <<single, magic_lock, thrVars, appsrc, appsink, nops>>
  /\ UNCHANGED <<openVars, otherVars>>

\* ---------------------------------------------------------- specification
ThreadStep(t) ==
  \/ ml_single_invoke_call(t)
  \/ ml_single_get_tensors_info_call(t)
  \/ ml_single_set_timeout_call(t)
  \/ ml_single_close_call(t)
  \/ ML_SINGLE_GET_VALID_HANDLE(t)
  \/ ml_single_close_invalidate(t)
  \/ g_mutex_lock(t)
  \/ ml_single_invoke_validate(t)
  \/ ml_single_invoke_clear_old(t)
  \/ ml_single_invoke_push(t)
  \/ ml_single_invoke_pull(t)
  \/ g_mutex_unlock_return(t)
  \/ ml_single_get_tensors_info(t)
  \/ ml_single_get_tensors_info_return(t)
  \/ ml_single_set_timeout(t)
  \/ ml_single_close_teardown(t)
  \/ ml_single_close_destroy(t)
  \/ ml_single_close_unlock(t)
  \/ ml_single_close_free(t)

Next ==
  \/ \E t \in Threads : ThreadStep(t)
  \/ \E h \in Handles : pipeline_deliver(h)
  \/ \E h \in Handles : pipeline_eos(h)

Spec == Init /\ [][Next]_vars

\* Threads are scheduled and a running wait runs out: every thread that can
\* take a step eventually does.  The pipeline owes nothing: it may never
\* deliver.
FairSpec == Spec /\ \A t \in Threads : WF_vars(ThreadStep(t))

\* ------------------------------------------------ "Copy the result" steps
\* ml_tensors_data_create (&single_h->out_info, output): one block per tensor
\* of the descriptor, of the tensor's byte size; nothing copied yet.
copy_allocate ==
  /\ cp_pc = "allocate"
  /\ cp_result' = [k \in 1..cp_info.num_tensors |->
                     [size |-> ml_tensor_info_get_size(cp_info.info[k]), copied |-> 0,
                      mem |-> 0]]
  /\ cp_i' = 1
  /\ cp_pc' = "copy"
  /\ UNCHANGED <<cp_info, cp_buffer, apiVars, openVars, restVars>>

\* gst_buffer_peek_memory (buffer, i): the index of the memory, NULL when the
\* buffer has no such memory.
gst_buffer_peek_memory(buffer, k) == IF k <= Len(buffer) THEN k ELSE 0

\* mem_info.size after gst_memory_map (mem, &mem_info, GST_MAP_READ): the
\* size of the memory; with mem NULL the map fails and mem_info keeps
\* whatever the stack held.
MappedSizes(buffer, mem) == IF mem = 0 THEN {0} \cup MemSizes ELSE {buffer[mem].size}

\* One round of the for loop over result->num_tensors, with
\* memcpy (result->tensors[i].tensor, mem_info.data, mem_info.size).
copy_block ==
  /\ cp_pc = "copy"
  /\ LET mem == gst_buffer_peek_memory(cp_buffer, cp_i) IN
       \E size \in MappedSizes(cp_buffer, mem) :
         cp_result' = [cp_result EXCEPT ![cp_i] = [@ EXCEPT !.copied = size, !.mem = mem]]
  /\ cp_i' = cp_i + 1
  /\ cp_pc' = IF cp_i < Len(cp_result) THEN "copy" ELSE "done"
  /\ UNCHANGED <<cp_info, cp_buffer, apiVars, openVars, restVars>>

CopyNext == copy_allocate \/ copy_block

CopySpec == CopyInit /\ [][CopyNext]_vars

\* ------------------------------------------- subplugin registry: steps
\* A thread enters get_subplugin, register_subplugin or unregister_subplugin.
RegEnter(t, o, name, first) ==
  /\ sp_pc[t] = "idle"
  /\ sp_nops < MaxRegOps
  /\ sp_pc' = [sp_pc EXCEPT ![t] = first]
  /\ sp_op' = [sp_op EXCEPT ![t] = o]
  /\ sp_name' = [sp_name EXCEPT ![t] = name]
  /\ sp_ret' = [sp_ret EXCEPT ![t] = UNINIT]
  /\ sp_in_get' = [sp_in_get EXCEPT ![t] = FALSE]
  /\ sp_nops' = sp_nops + 1
  /\ UNCHANGED <<splock, sp_table, sp_tables>>

\* return r.
RegReturn(t, r) ==
  /\ sp_pc' = [sp_pc EXCEPT ![t] = "idle"]
  /\ sp_ret' = [sp_ret EXCEPT ![t] = r]

notRegVars == <<apiVars, openVars, copyVars, queryVars, confVars>>

register_subplugin_call(t) ==
  /\ \E name \in SubpluginNames : RegEnter(t, "register", name, "r_check")
  /\ UNCHANGED notRegVars

unregister_subplugin_call(t) ==
  /\ \E name \in SubpluginNames : RegEnter(t, "unregister", name, "u_check")
  /\ UNCHANGED notRegVars

get_subplugin_call(t) ==
  /\ \E name \in SubpluginNames : RegEnter(t, "get", name, "g_lock")
  /\ UNCHANGED notRegVars

\* The names in the table subplugins[type] points to.
TableNames == IF sp_table = 0 THEN {} ELSE sp_tables[sp_table]

\* register_subplugin: if (subplugins[type] == NULL), read without the lock.
register_subplugin_check(t) ==
  /\ sp_pc[t] = "r_check"
  /\ sp_pc' = [sp_pc EXCEPT ![t] = IF sp_table = 0 THEN "r_create" ELSE "r_lock"]
  /\ UNCHANGED <<splock, sp_table, sp_tables, sp_op, sp_name, sp_ret, sp_in_get, sp_nops>>
  /\ UNCHANGED notRegVars

\* subplugins[type] = g_hash_table_new_full (...), written without the lock.
register_subplugin_create(t) ==
  /\ sp_pc[t] = "r_create"
  /\ sp_tables' = Append(sp_tables, {})
  /\ sp_table' = Len(sp_tables) + 1
  /\ sp_pc' = [sp_pc EXCEPT ![t] = "r_lock"]
  /\ UNCHANGED <<splock, sp_op, sp_name, sp_ret, sp_in_get, sp_nops>>
  /\ UNCHANGED notRegVars

\* G_LOCK (splock) of register_subplugin: not recursive, a caller that holds
\* the lock already waits for itself.
register_subplugin_lock(t) ==
  /\ sp_pc[t] = "r_lock"
  /\ splock = NoThread
  /\ splock' = t
  /\ sp_pc' = [sp_pc EXCEPT ![t] = "r_insert"]
  /\ UNCHANGED <<sp_table, sp_tables, sp_op, sp_name, sp_ret, sp_in_get, sp_nops>>
  /\ UNCHANGED notRegVars

\* g_hash_table_insert returns TRUE when the key was not in the table.
g_hash_table_insert(names, name) == IF name \in names THEN "FALSE" ELSE "TRUE"

\* ret = g_hash_table_insert (subplugins[type], ...); G_UNLOCK (splock);
\* return ret.  Called from get_subplugin, that function goes on: it looks
\* the entry up, stores the dlopen handle, unlocks and returns the data.
register_subplugin_insert(t) ==
  /\ sp_pc[t] = "r_insert"
  /\ sp_tables' = [sp_tables EXCEPT ![sp_table] = @ \cup {sp_name[t]}]
  /\ splock' = NoThread
  /\ RegReturn(t, IF sp_in_get[t] THEN "data" ELSE g_hash_table_insert(TableNames, sp_name[t]))
  /\ UNCHANGED <<sp_table, sp_op, sp_name, sp_in_get, sp_nops>>
  /\ UNCHANGED notRegVars

\* unregister_subplugin: if (subplugins[type] == NULL) return FALSE.
unregister_subplugin_check(t) ==
  /\ sp_pc[t] = "u_check"
  /\ IF sp_table = 0
       THEN RegReturn(t, "FALSE")
       ELSE sp_pc' = [sp_pc EXCEPT ![t] = "u_lock"] /\ UNCHANGED sp_ret
  /\ UNCHANGED <<splock, sp_table, sp_tables, sp_op, sp_name, sp_in_get, sp_nops>>
  /\ UNCHANGED notRegVars

unregister_subplugin_lock(t) ==
  /\ sp_pc[t] = "u_lock"
  /\ splock = NoThread
  /\ splock' = t
  /\ sp_pc' = [sp_pc EXCEPT ![t] = "u_remove"]
  /\ UNCHANGED <<sp_table, sp_tables, sp_op, sp_name, sp_ret, sp_in_get, sp_nops>>
  /\ UNCHANGED notRegVars

\* ret = g_hash_table_remove (subplugins[type], name); G_UNLOCK (splock).
unregister_subplugin_remove(t) ==
  /\ sp_pc[t] = "u_remove"
  /\ sp_tables' = [sp_tables EXCEPT ![sp_table] = @ \ {sp_name[t]}]
  /\ splock' = NoThread
  /\ RegReturn(t, IF sp_name[t] \in TableNames THEN "TRUE" ELSE "FALSE")
  /\ UNCHANGED <<sp_table, sp_op, sp_name, sp_in_get, sp_nops>>
  /\ UNCHANGED notRegVars

\* G_LOCK (splock) of get_subplugin.
get_subplugin_lock(t) ==
  /\ sp_pc[t] = "g_lock"
  /\ splock = NoThread
  /\ splock' = t
  /\ sp_pc' = [sp_pc EXCEPT ![t] = "g_lookup"]
  /\ UNCHANGED <<sp_table, sp_tables, sp_op, sp_name, sp_ret, sp_in_get, sp_nops>>
  /\ UNCHANGED notRegVars

\* What the search for a name that is not in the table may end with: no path
\* or no dlopen or a failed check ("error"), a subplugin held by probe()
\* ("held"), or a shared object that passes every check ("load").
LoadOutcomes == {"error", "held", "load"}

\* The table is made if missing and the name looked up.  Found: unlock and
\* return its data.  Not found: error and held unlock and return; load calls
\* register_subplugin (type, name, nsdata->data) with splock still held.
get_subplugin_lookup(t) ==
  /\ sp_pc[t] = "g_lookup"
  /\ sp_tables' = IF sp_table = 0 THEN Append(sp_tables, {}) ELSE sp_tables
  /\ sp_table' = IF sp_table = 0 THEN Len(sp_tables) + 1 ELSE sp_table
  /\ IF sp_name[t] \in TableNames
       THEN /\ splock' = NoThread
            /\ RegReturn(t, "data")
            /\ UNCHANGED sp_in_get
       ELSE \E outcome \in LoadOutcomes :
              IF outcome = "load"
                THEN /\ sp_pc' = [sp_pc EXCEPT ![t] = "r_check"]
                     /\ sp_in_get' = [sp_in_get EXCEPT ![t] = TRUE]
                     /\ UNCHANGED <<splock, sp_ret>>
                ELSE /\ splock' = NoThread
                     /\ RegReturn(t, IF outcome = "held" THEN "held" ELSE NULL)
                     /\ UNCHANGED sp_in_get
  /\ UNCHANGED <<sp_op, sp_name, sp_nops>>
  /\ UNCHANGED notRegVars

RegStep(t) ==
  \/ register_subplugin_call(t)
  \/ unregister_subplugin_call(t)
  \/ get_subplugin_call(t)
  \/ register_subplugin_check(t)
  \/ register_subplugin_create(t)
  \/ register_subplugin_lock(t)
  \/ register_subplugin_insert(t)
  \/ unregister_subplugin_check(t)
  \/ unregister_subplugin_lock(t)
  \/ unregister_subplugin_remove(t)
  \/ get_subplugin_lock(t)
  \/ get_subplugin_lookup(t)

RegNext == \E t \in RegThreads : RegStep(t)

RegSpec == Init /\ [][RegNext]_vars

\* ----------------------------------------- tensor query client: steps
notQueryVars == <<apiVars, openVars, copyVars, regVars, confVars>>

GST_OBJECT_FLAG_IS_SET(flag) == flag \in qc_flags

\* gst_tensor_query_client_connect ends without a socket, with a refused or
\* cancelled g_socket_connect, or with a connected socket.
ConnectOutcomes == {"nosocket", "refused", "connected"}

\* The ports a pipeline description gives the element.
Ports == {TCP_DEFAULT_SINK_PORT, TCP_DEFAULT_SRC_PORT}

\* set_property of sink-port or src-port, between two virtual methods.
gst_tensor_query_client_set_property ==
  /\ qc_pc = "idle"
  /\ \E prop_id \in {"PROP_SINK_PORT", "PROP_SRC_PORT"}, value \in Ports :
       /\ qc_sink_port' = IF prop_id = "PROP_SINK_PORT" THEN value ELSE qc_sink_port
       /\ qc_src_port' = IF prop_id = "PROP_SRC_PORT" THEN value ELSE qc_src_port
  /\ UNCHANGED <<qc_sink_socket, qc_src_socket, qc_flags, qc_sockets, qc_pc, qc_op, qc_ret>>
  /\ UNCHANGED notQueryVars

\* The virtual method start or stop is entered.
gst_tensor_query_client_start_call ==
  /\ qc_pc = "idle"
  /\ qc_pc' = "start_sink"
  /\ qc_op' = "start"
  /\ qc_ret' = UNINIT
  /\ UNCHANGED <<qc_sink_socket, qc_src_socket, qc_sink_port, qc_src_port, qc_flags, qc_sockets>>
  /\ UNCHANGED notQueryVars

\* start, sink part: with the flag unset, connect (self, TRUE); a failed
\* connect returns FALSE from start, a good one stores the socket and sets
\* the flag.
gst_tensor_query_client_start_sink ==
  /\ qc_pc = "start_sink"
  /\ IF GST_OBJECT_FLAG_IS_SET(GST_TENSOR_QUERY_CLIENT_SINK_SOCKET_OPEN)
       THEN /\ qc_pc' = "start_src"
            /\ UNCHANGED <<qc_sink_socket, qc_flags, qc_sockets, qc_ret>>
       ELSE \E outcome \in ConnectOutcomes :
              IF outcome = "connected" /\ Len(qc_sockets) < MaxSockets
                THEN /\ qc_sockets' = Append(qc_sockets, [state |-> "open", port |-> qc_sink_port])
                     /\ qc_sink_socket' = Len(qc_sockets) + 1
                     /\ qc_flags' = qc_flags \cup {GST_TENSOR_QUERY_CLIENT_SINK_SOCKET_OPEN}
                     /\ qc_pc' = "start_src"
                     /\ UNCHANGED qc_ret
                ELSE /\ qc_pc' = "idle"
                     /\ qc_ret' = "FALSE"
                     /\ UNCHANGED <<qc_sink_socket, qc_flags, qc_sockets>>
  /\ UNCHANGED <<qc_src_socket, qc_sink_port, qc_src_port, qc_op>>
  /\ UNCHANGED notQueryVars

\* start, src part: the same with connect (self, FALSE); then return TRUE.
gst_tensor_query_client_start_src ==
  /\ qc_pc = "start_src"
  /\ IF GST_OBJECT_FLAG_IS_SET(GST_TENSOR_QUERY_CLIENT_SRC_SOCKET_OPEN)
       THEN /\ qc_ret' = "TRUE"
            /\ UNCHANGED <<qc_src_socket, qc_flags, qc_sockets>>
       ELSE \E outcome \in ConnectOutcomes :
              IF outcome = "connected" /\ Len(qc_sockets) < MaxSockets
                THEN /\ qc_sockets' = Append(qc_sockets, [state |-> "open", port |-> qc_src_port])
                     /\ qc_src_socket' = Len(qc_sockets) + 1
                     /\ qc_flags' = qc_flags \cup {GST_TENSOR_QUERY_CLIENT_SRC_SOCKET_OPEN}
                     /\ qc_ret' = "TRUE"
                ELSE /\ qc_ret' = "FALSE"
                     /\ UNCHANGED <<qc_src_socket, qc_flags, qc_sockets>>
  /\ qc_pc' = "idle"
  /\ UNCHANGED <<qc_sink_socket, qc_sink_port, qc_src_port, qc_op>>
  /\ UNCHANGED notQueryVars

gst_tensor_query_client_stop_call ==
  /\ qc_pc = "idle"
  /\ qc_pc' = "stop_sink"
  /\ qc_op' = "stop"
  /\ qc_ret' = UNINIT
  /\ UNCHANGED <<qc_sink_socket, qc_src_socket, qc_sink_port, qc_src_port, qc_flags, qc_sockets>>
  /\ UNCHANGED notQueryVars

\* gst_tensor_query_client_close_socket: g_socket_close, unref, *socket = NULL.
gst_tensor_query_client_close_socket(sockets, socket) ==
  [sockets EXCEPT ![socket].state = "closed"]

\* A stop that closes the sink socket and leaves its flag set.
gst_tensor_query_client_stop_sink_KeepsFlag ==
  /\ qc_pc = "stop_sink"
  /\ IF qc_sink_socket # 0
       THEN /\ qc_sockets' = gst_tensor_query_client_close_socket(qc_sockets, qc_sink_socket)
            /\ qc_sink_socket' = 0
            /\ UNCHANGED qc_flags
       ELSE UNCHANGED <<qc_sink_socket, qc_flags, qc_sockets>>
  /\ qc_pc' = "stop_src"
  /\ UNCHANGED <<qc_src_socket, qc_sink_port, qc_src_port, qc_op, qc_ret>>
  /\ UNCHANGED notQueryVars

\* stop, sink part: a non-null sink socket is closed and its flag unset.
gst_tensor_query_client_stop_sink ==
  /\ qc_pc = "stop_sink"
  /\ IF qc_sink_socket # 0
       THEN /\ qc_sockets' = gst_tensor_query_client_close_socket(qc_sockets, qc_sink_socket)
            /\ qc_sink_socket' = 0
            /\ qc_flags' = qc_flags \ {GST_TENSOR_QUERY_CLIENT_SINK_SOCKET_OPEN}
       ELSE UNCHANGED <<qc_sink_socket, qc_flags, qc_sockets>>
  /\ qc_pc' = "stop_src"
  /\ UNCHANGED <<qc_src_socket, qc_sink_port, qc_src_port, qc_op, qc_ret>>
  /\ UNCHANGED notQueryVars

\* stop, src part; then return TRUE.
gst_tensor_query_client_stop_src ==
  /\ qc_pc = "stop_src"
  /\ IF qc_src_socket # 0
       THEN /\ qc_sockets' = gst_tensor_query_client_close_socket(qc_sockets, qc_src_socket)
            /\ qc_src_socket' = 0
            /\ qc_flags' = qc_flags \ {GST_TENSOR_QUERY_CLIENT_SRC_SOCKET_OPEN}
       ELSE UNCHANGED <<qc_src_socket, qc_flags, qc_sockets>>
  /\ qc_pc' = "idle"
  /\ qc_ret' = "TRUE"
  /\ UNCHANGED <<qc_sink_socket, qc_sink_port, qc_src_port, qc_op>>
  /\ UNCHANGED notQueryVars

QueryNext ==
  \/ gst_tensor_query_client_set_property
  \/ gst_tensor_query_client_start_call
  \/ gst_tensor_query_client_start_sink
  \/ gst_tensor_query_client_start_src
  \/ gst_tensor_query_client_stop_call
  \/ gst_tensor_query_client_stop_sink
  \/ gst_tensor_query_client_stop_src

QuerySpec == Init /\ [][QueryNext]_vars

\* ----------------------------------------------- nnstreamer_conf: steps
notConfVars == <<apiVars, openVars, copyVars, regVars, queryVars>>

\* _validate_file: directories and symbolic links are ignored.
validate_file(entry) == entry.kind # "directory" /\ entry.kind # "symlink"

g_build_filename(dir, name) == [dir |-> dir, name |-> name]

\* _get_filenames: every entry with the prefix of the type and the .so
\* extension that passes _validate_file is prepended to both lists.
RECURSIVE get_filenames(_, _, _, _, _)
get_filenames(prefix, dir, entries, listF, listB) ==
  IF entries = <<>>
    THEN <<listF, listB>>
    ELSE LET entry == Head(entries)
             keep == /\ g_str_has_prefix(entry.name, prefix)
                     /\ g_str_has_suffix(entry.name, SO_EXTENSION)
                     /\ validate_file(entry)
         IN get_filenames(prefix, dir, Tail(entries),
              IF keep THEN <<g_build_filename(dir, entry.name)>> \o listF ELSE listF,
              IF keep THEN <<entry.name>> \o listB ELSE listB)

\* The list turned round.
g_slist_reverse_Skipped(l) == l

RECURSIVE g_slist_reverse(_)
g_slist_reverse(l) == IF l = <<>> THEN <<>> ELSE Append(g_slist_reverse(Tail(l)), Head(l))

\* One round of the loop of _fill_in_vstr: a configured source is scanned.
fill_in_vstr_scan ==
  /\ cf_pc = "scan"
  /\ LET lists == IF cf_search[cf_i].configured
                    THEN get_filenames(NNSTREAMER_PREFIX_FILTER, SourceDirs[cf_i],
                           cf_search[cf_i].entries, cf_lstF, cf_lstB)
                    ELSE <<cf_lstF, cf_lstB>>
     IN /\ cf_lstF' = lists[1]
        /\ cf_lstB' = lists[2]
  /\ cf_i' = cf_i + 1
  /\ cf_pc' = IF cf_i < CONF_SOURCES THEN "scan" ELSE "fill"
  /\ UNCHANGED <<cf_search, cf_files, cf_basenames, cf_name, cf_ret>>
  /\ UNCHANGED notConfVars

\* The rest of _fill_in_vstr: both lists are reversed and copied into the
\* NULL terminated arrays; nnsconf_loadconf then sets conf.loaded.
fill_in_vstr_fill ==
  /\ cf_pc = "fill"
  /\ cf_files' = g_slist_reverse(cf_lstF)
  /\ cf_basenames' = g_slist_reverse(cf_lstB)
  /\ cf_lstF' = <<>>
  /\ cf_lstB' = <<>>
  /\ cf_pc' = "loaded"
  /\ UNCHANGED <<cf_search, cf_i, cf_name, cf_ret>>
  /\ UNCHANGED notConfVars

\* nnsconf_get_fullpath_fromfile: the full path at the first index whose
\* basename equals file2find, NULL without one.
nnsconf_get_fullpath_fromfile(file2find, vstr, vstrFull) ==
  LET hits == {k \in 1..Len(vstr) : vstr[k] = file2find}
  IN IF hits = {}
       THEN NoPath
       ELSE vstrFull[CHOOSE k \in hits : \A j \in hits : k <= j]

\* nnsconf_get_fullpath (subpluginname, NNSCONF_PATH_FILTERS).
nnsconf_get_fullpath ==
  /\ cf_pc = "loaded"
  /\ \E subpluginname \in SubpluginNames :
       /\ cf_name' = subpluginname
       /\ cf_ret' = nnsconf_get_fullpath_fromfile(
                      g_strconcat(NNSTREAMER_PREFIX_FILTER, subpluginname, SO_EXTENSION),
                      cf_basenames, cf_files)
  /\ cf_pc' = "done"
  /\ UNCHANGED <<cf_search, cf_i, cf_lstF, cf_lstB, cf_files, cf_basenames>>
  /\ UNCHANGED notConfVars

ConfNext ==
  \/ fill_in_vstr_scan
  \/ fill_in_vstr_fill
  \/ nnsconf_get_fullpath

ConfSpec == ConfInit /\ [][ConfNext]_vars

\* ------------------------------------------------------------- properties
LockedPcs == {"validate", "drain", "push", "wait", "done", "getinfo", "gotinfo", "settimeout",
              "teardown", "destroy", "unlock"}
InvokePcs == {"validate", "drain", "push", "wait", "done"}

InCritical(t, h) == hnd[t] = h /\ pc[t] \in LockedPcs

\* A call leaves the liveness check (ML_SINGLE_GET_VALID_HANDLE) in this step.
LeavesCheck(t) == pc[t] = "glock" /\ pc'[t] # "glock"

\* C1: at most one call is inside the per-handle critical section of a handle.
C1_OneInCriticalSection ==
  \A h \in Handles : Cardinality({t \in Threads : InCritical(t, h)}) <= 1

\* C1 witness: one call is inside the critical section while another call on
\* the same handle waits for the per-handle mutex.
C1_Witness ==
  \E t, u \in Threads :
    /\ t # u /\ hnd[t] = hnd[u]
    /\ pc[t] \in LockedPcs /\ pc[u] = "hlock"

\* C2: no call reads or writes the memory of a handle that ml_single_close has
\* freed, its liveness check included.
C2_NoUseAfterFree ==
  [][\A t \in Threads : LeavesCheck(t) => ~single[hnd[t]].freed]_vars

\* C3: while an invoke holds the per-handle mutex, close has released nothing:
\* the stage references, the pipeline, the mutex and the handle are intact.
C3_CloseWaitsForInvoke ==
  \A t \in Threads :
    (op[t] = "invoke" /\ pc[t] \in InvokePcs) =>
      /\ single[hnd[t]].src # NULL /\ single[hnd[t]].sink # NULL
      /\ single[hnd[t]].filter # NULL /\ single[hnd[t]].pipe # NULL
      /\ single[hnd[t]].lock = t
      /\ ~single[hnd[t]].freed

\* C3 witness: close has invalidated the handle and waits for the mutex that
\* an invoke, blocked in its wait for output, holds.
C3_Witness ==
  \E t, u \in Threads :
    /\ op[t] = "close" /\ pc[t] = "hlock" /\ hnd[u] = hnd[t]
    /\ op[u] = "invoke" /\ pc[u] = "wait"
    /\ single[hnd[t]].magic = MAGIC_CLEARED

\* C4: a call whose liveness check comes after close invalidated the handle
\* returns invalid-parameter and touches neither the handle nor the pipeline.
C4_DeadHandleRejected ==
  [][\A t \in Threads :
       (LeavesCheck(t) /\ single[hnd[t]].magic # ML_SINGLE_MAGIC) =>
         /\ pc'[t] = "idle" /\ status'[t] = ML_ERROR_INVALID_PARAMETER
         /\ single' = single /\ appsrc' = appsrc /\ appsink' = appsink]_vars

\* C5: a call on one handle is never kept waiting for an invoke on another
\* handle to return.
C5_UnrelatedHandleNeverWaits ==
  \A t, u, v \in Threads :
    ~ /\ pc[t] = "glock" /\ magic_lock = u
      /\ pc[u] = "hlock" /\ hnd[u] # hnd[t]
      /\ single[hnd[u]].lock = v
      /\ op[v] = "invoke" /\ pc[v] \in InvokePcs

\* C6: a successful invoke returns the result of the buffer it pushed itself,
\* never the result left over from an earlier timed-out call.
C6_NoStaleResult ==
  \A t \in Threads :
    (pc[t] = "done" /\ status[t] = ML_ERROR_NONE /\ cause[t] = "sample") =>
      /\ sample[t].id = pushed[t]
      /\ output[t].ptr # NULL
      /\ output[t] = CopyResult(ml_tensors_data_create(OutInfo(hnd[t])),
                                FilterResult(hnd[t], InputBuffer(pushed[t], input[t])))

\* C6 witness: an invoke that had to clear the old buffer of a timed-out call
\* has got its own result.
C6_Witness ==
  \E t \in Threads :
    /\ pc[t] = "done" /\ cleared[t] /\ cause[t] = "sample"
    /\ status[t] = ML_ERROR_NONE /\ sample[t].id = pushed[t]

\* C7: an invoke that holds the per-handle mutex eventually returns, even if
\* the pipeline never delivers.
C7_InvokeReturns ==
  \A t \in Threads : (pc[t] = "validate") ~> (pc[t] = "idle")

\* C8: when the wait for output runs out, invoke ends with timed-out, a NULL
\* output and the flag set; the handle's tag, timeout and descriptors stay.
C8_TimeoutOutcome ==
  [][\A t \in Threads :
       (pc[t] = "wait" /\ cause'[t] = "expired") =>
         /\ pc'[t] = "done" /\ status'[t] = ML_ERROR_TIMED_OUT
         /\ output'[t] = OutputNull
         /\ single'[hnd[t]] = [single[hnd[t]] EXCEPT !.clear_previous_buffer = TRUE]
         /\ ~single'[hnd[t]].freed]_vars

\* C8 witness: an invoke whose wait ran out is about to return timed-out.
C8_Witness ==
  \E t \in Threads :
    /\ pc[t] = "done" /\ cause[t] = "expired"
    /\ status[t] = ML_ERROR_TIMED_OUT /\ single[hnd[t]].clear_previous_buffer

InputMismatch(h, in) ==
  \/ in.num_tensors # InInfo(h).num_tensors
  \/ \E i \in 1..in.num_tensors :
       \/ in.tensors[i].tensor = NULL
       \/ in.tensors[i].size # ml_tensor_info_get_size(InInfo(h).info[i])

\* C10: an input that does not fit the negotiated descriptor ends the invoke
\* with invalid-parameter and a NULL output, with no drain, push or wait, and
\* with the handle (flag and timeout included) and the pipeline untouched.
C10_InvalidInputRejected ==
  [][\A t \in Threads :
       (pc[t] = "validate" /\ pc'[t] # "validate"
          /\ InputMismatch(hnd[t], input'[t])) =>
         /\ pc'[t] = "done" /\ status'[t] = ML_ERROR_INVALID_PARAMETER
         /\ output'[t] = OutputNull
         /\ pushed'[t] = 0 /\ cause'[t] = "none" /\ ~cleared'[t]
         /\ single' = single /\ appsrc' = appsrc /\ appsink' = appsink]_vars

\* C10 witness: an invoke given a block one byte short is about to return
\* invalid-parameter, on a handle whose flag is set.
C10_Witness ==
  \E t \in Threads :
    /\ pc[t] = "done" /\ status[t] = ML_ERROR_INVALID_PARAMETER
    /\ input[t].num_tensors = 1 /\ input[t].tensors[1].size = 783
    /\ single[hnd[t]].clear_previous_buffer

\* The output is an allocated ml_tensors_data_s with one completely filled
\* block per tensor of the descriptor, each of the descriptor's byte size.
OutputMatches(out, info) ==
  /\ out.ptr \notin {NULL, UNINIT}
  /\ Len(out.tensors) = info.num_tensors
  /\ \A i \in 1..info.num_tensors :
       /\ out.tensors[i].size = ml_tensor_info_get_size(info.info[i])
       /\ out.tensors[i].tensor \notin {NULL, "zeros", "corrupt"}

Outstanding(h) == Len(appsrc[h]) + Len(appsink[h])

\* C12: invoke never pushes while an earlier frame of the handle is still
\* unconsumed, so a handle never has more than one frame outstanding.
C12_OneFrameInFlight ==
  \A h \in Handles : Outstanding(h) <= 1

\* The buffers queued before the filter wrap the caller's input blocks (no
\* copy is made), so such a buffer references the input of the call that
\* pushed it.  The call with that input is still running.
InputBorrowed(h, buf) ==
  \E t \in Threads :
    /\ hnd[t] = h /\ op[t] = "invoke" /\ pc[t] \in {"wait", "done"}
    /\ pushed[t] = buf.id

\* C13: no buffer in the pipeline references the input blocks of an invoke
\* that has returned.
C13_InputNotRetained ==
  \A h \in Handles : \A i \in 1..Len(appsrc[h]) : InputBorrowed(h, appsrc[h][i])

\* C14: when ml_single_open returns an error, *single is NULL and nothing the
\* call built is still allocated: no pipeline, no element reference, no
\* mutex, no descriptor, no handle, no temporary.
C14_FailedOpenLeavesNothing ==
  (open_pc = "returned" /\ open_status # ML_ERROR_NONE /\ open_args.single # NULL) =>
    /\ open_single = NULL
    /\ \A r \in Resources : res[r] # "live"
    /\ single_h.pipe = NULL /\ single_h.src = NULL
    /\ single_h.sink = NULL /\ single_h.filter = NULL
    /\ single_h.magic # ML_SINGLE_MAGIC

\* C14 witness: an open that failed at its last step, the start of the
\* pipeline, has returned after the handle and the pipeline were built.
C14_Witness ==
  /\ open_pc = "returned" /\ open_status = ML_ERROR_STREAMS_PIPE
  /\ res["single_h"] = "freed" /\ res["pipe"] = "freed" /\ res["out_info"] = "freed"

\* C15: ml_single_get_input_info returns the input descriptor stored in the
\* handle at open, the one ml_single_invoke validates its input against.
C15_DescribeReturnsNegotiated ==
  \A t \in Threads :
    (pc[t] = "gotinfo" /\ info_h[t].is_input) => info_h[t].info = single[hnd[t]].in_info

\* C16: ml_single_set_timeout with a zero timeout returns invalid-parameter
\* at once and changes the timeout of no handle; a call that goes on carries
\* a timeout that is not zero.
C16_ZeroTimeoutRejected ==
  [][\A t \in Threads :
       (pc[t] = "idle" /\ op'[t] = "set_timeout" /\ nops' = nops + 1) =>
         IF timeout_arg'[t] = 0
           THEN /\ pc'[t] = "idle"
                /\ status'[t] = ML_ERROR_INVALID_PARAMETER
                /\ \A h \in Handles : single'[h].timeout = single[h].timeout
           ELSE pc'[t] = "glock"]_vars

\* A zero timeout has been rejected on a handle whose timeout an earlier call
\* had changed.
C16_Witness ==
  \E t \in Threads, h \in Handles :
    /\ pc[t] = "idle" /\ op[t] = "set_timeout"
    /\ status[t] = ML_ERROR_INVALID_PARAMETER
    /\ single[h].timeout = 5000

\* C17 (as stated): from the call of ml_single_invoke to its return no step
\* changes the timeout of its handle, so that the call waits with the value
\* in force when it was called.
C17_TimeoutFixedFromCall ==
  [][\A t \in Threads :
       (op[t] = "invoke" /\ pc[t] # "idle" /\ ~single[hnd[t]].freed) =>
         single'[hnd[t]].timeout = single[hnd[t]].timeout]_vars

\* C17 (amended): from the moment ml_single_invoke holds the mutex of its
\* handle to its return no step changes the timeout of the handle, and the
\* call waits with that value; ml_single_set_timeout leaves its argument in
\* the handle when it returns.
C17_TimeoutFixedUnderLock ==
  [][\A t \in Threads :
       /\ (op[t] = "invoke" /\ pc[t] \in InvokePcs) =>
            /\ single'[hnd[t]].timeout = single[hnd[t]].timeout
            /\ pc'[t] = "wait" => wait_bound'[t] = single[hnd[t]].timeout
       /\ (pc[t] = "settimeout" /\ pc'[t] = "idle") =>
            single'[hnd[t]].timeout = timeout_arg[t]]_vars

\* An invoke started after a ml_single_set_timeout (h, 5000) had returned
\* waits with 5000 while a further ml_single_set_timeout on the handle waits
\* for the mutex.
C17_Witness ==
  \E t, u \in Threads :
    /\ op[t] = "invoke" /\ pc[t] = "wait" /\ wait_bound[t] = 5000
    /\ op[u] = "set_timeout" /\ pc[u] = "hlock" /\ hnd[u] = hnd[t]

\* What belongs to one handle: the ml_single and the queues of its pipeline.
HandleState(h) == <<single[h], appsrc[h], appsink[h], eos[h]>>

\* C18: a step of a call on one handle, and a step of one pipeline, changes
\* nothing that belongs to the other handle, and the sample an invoke pulls
\* was made by the pipeline of its own handle from a frame pushed to it.
C18_HandlesIndependent ==
  [][/\ \A t \in Threads, h \in Handles :
          (pc'[t] # pc[t] /\ hnd[t] # h /\ hnd'[t] # h) => HandleState(h)' = HandleState(h)
     /\ \A h, g \in Handles :
          h # g => (HandleState(h)' = HandleState(h) \/ HandleState(g)' = HandleState(g))
     /\ \A t \in Threads :
          (pc[t] = "wait" /\ pc'[t] = "done" /\ cause'[t] = "sample") =>
            sample'[t].by = hnd[t]]_vars

\* Two invokes on two handles have pulled their samples at the same time.
C18_Witness ==
  \E t, u \in Threads :
    /\ hnd[t] = 1 /\ hnd[u] = 2
    /\ pc[t] = "done" /\ cause[t] = "sample" /\ sample[t].by = 1
    /\ pc[u] = "done" /\ cause[u] = "sample" /\ sample[u].by = 2

\* C19: on a handle whose model copies its input to its output, a successful
\* invoke returns the bytes of the input of that same call: the sample it
\* pulled is the one made from the frame it pushed, and every block of the
\* output equals the block of the input.
C19_IdentityRoundTrip ==
  \A t \in Threads :
    (pc[t] = "done" /\ op[t] = "invoke" /\ status[t] = ML_ERROR_NONE
       /\ IdentityBackend(hnd[t])) =>
      /\ sample[t].id = pushed[t]
      /\ output[t].ptr = "data"
      /\ Len(output[t].tensors) = input[t].num_tensors
      /\ \A i \in 1..input[t].num_tensors : output[t].tensors[i] = input[t].tensors[i]

\* An invoke on the pass-through handle has succeeded after it had to drop
\* the late result of an earlier, timed-out call.
C19_Witness ==
  \E t \in Threads :
    /\ pc[t] = "done" /\ op[t] = "invoke" /\ status[t] = ML_ERROR_NONE
    /\ IdentityBackend(hnd[t]) /\ cleared[t]
    /\ output[t].tensors = <<[tensor |-> "dataA", size |-> 784]>>

\* The extension of a path: the text from its last "." on, empty if none.
Extension(path) ==
  IF \E i \in DOMAIN path : path[i] = "."
    THEN LET dot == CHOOSE i \in DOMAIN path :
                      path[i] = "." /\ \A j \in DOMAIN path : j > i => path[j] # "."
         IN SubSeq(path, dot, Len(path))
    ELSE <<>>

\* Two texts are the same but for the case of their letters.
SameButCase(a, b) ==
  /\ Len(a) = Len(b)
  /\ \A i \in DOMAIN a :
       \/ a[i] = b[i]
       \/ \E k \in DOMAIN UpperChars : {a[i], b[i]} = {UpperChars[k], LowerChars[k]}

\* The framework an extension stands for, "none" for any other extension.
ExtensionFramework(ext) ==
  IF SameButCase(ext, TFLITE_SUFFIX) THEN ML_NNFW_TYPE_TENSORFLOW_LITE
  ELSE IF SameButCase(ext, PB_SUFFIX) THEN ML_NNFW_TYPE_TENSORFLOW
  ELSE IF SameButCase(ext, NNSTREAMER_SO_FILE_EXTENSION) THEN ML_NNFW_TYPE_CUSTOM_FILTER
  ELSE "none"

\* C20: called with ML_NNFW_TYPE_ANY, ml_single_open that has accepted its
\* arguments goes on with the framework the extension of the model path
\* stands for, whatever the case of its letters; with any other extension it
\* returns invalid-parameter, and no pipeline is ever constructed for it.
C20_FrameworkFromExtension ==
  (open_args.nnfw = ML_NNFW_TYPE_ANY /\ open_pc \notin {"none", "start", "nnfw"}) =>
    LET fw == ExtensionFramework(Extension(open_args.model)) IN
      /\ (open_pc # "returned" \/ res["pipe"] # "none") =>
           (fw # "none" /\ open_nnfw = fw)
      /\ (open_pc = "returned" /\ res["path_down"] = "freed" /\ fw # "none") =>
           open_nnfw = fw
      /\ (open_pc = "returned" /\ res["path_down"] = "freed" /\ fw = "none") =>
           open_status = ML_ERROR_INVALID_PARAMETER
      /\ fw = "none" => (res["pipe"] = "none" /\ open_single # "single_h")

\* A model path with a mixed-case extension has been opened with no
\* framework given.
C20_Witness ==
  /\ open_pc = "returned" /\ open_status = ML_ERROR_NONE /\ open_single = "single_h"
  /\ open_args.nnfw = ML_NNFW_TYPE_ANY
  /\ open_args.model = <<"m", ".", "T", "F", "L", "i", "t", "e">>
  /\ open_nnfw = ML_NNFW_TYPE_TENSORFLOW_LITE

\* The frameworks that stand for a model file extension.
HintsWithExtension ==
  {ML_NNFW_TYPE_CUSTOM_FILTER, ML_NNFW_TYPE_TENSORFLOW_LITE, ML_NNFW_TYPE_TENSORFLOW}

\* The extension of the model path is the one of the framework asked for.
HintMatchesExtension ==
  /\ open_args.nnfw \in HintsWithExtension
  /\ ExtensionFramework(Extension(open_args.model)) = open_args.nnfw

\* C21: called with a framework other than ML_NNFW_TYPE_ANY and a model path
\* whose extension is not the one of that framework, ml_single_open constructs
\* no pipeline, hands out no handle and returns an error; for the frameworks
\* that have an extension the error is invalid-parameter, returned from the
\* extension test.
C21_HintNeedsItsExtension ==
  (open_args.nnfw # ML_NNFW_TYPE_ANY /\ ~HintMatchesExtension
     /\ open_pc \notin {"none", "start", "nnfw"}) =>
    /\ res["pipe"] = "none"
    /\ open_single # "single_h"
    /\ open_pc = "returned" => open_status # ML_ERROR_NONE
    /\ (res["path_down"] = "freed" /\ open_args.nnfw \in HintsWithExtension) =>
         (open_pc = "returned" /\ open_status = ML_ERROR_INVALID_PARAMETER)

\* tensorflow-lite was asked for with a tensorflow model file.
C21_Witness ==
  /\ open_pc = "returned" /\ open_status = ML_ERROR_INVALID_PARAMETER
  /\ res["path_down"] = "freed"
  /\ open_args.nnfw = ML_NNFW_TYPE_TENSORFLOW_LITE
  /\ open_args.model = <<"m", ".", "p", "b">>

\* Both descriptors were passed to ml_single_open.
BothInfosGiven == open_args.input_info.given /\ open_args.output_info.given

\* C22: when the framework is tensorflow and the input or the output
\* descriptor was not given, ml_single_open that got as far as describing the
\* pipeline returns invalid-parameter; no pipeline is constructed, no
\* ml_single is allocated and no handle is handed out.
C22_TensorflowNeedsBothInfos ==
  (open_nnfw = ML_NNFW_TYPE_TENSORFLOW /\ ~BothInfosGiven) =>
    /\ res["pipe"] = "none" /\ res["pipeline_desc"] = "none" /\ res["single_h"] = "none"
    /\ open_single # "single_h"
    /\ open_pc = "returned" => open_status # ML_ERROR_NONE
    /\ available = "true" =>
         /\ open_pc \in {"construct", "returned"}
         /\ open_pc = "returned" => open_status = ML_ERROR_INVALID_PARAMETER

\* A tensorflow model, found by its extension and available, was opened with
\* an input descriptor only.
C22_Witness ==
  /\ open_pc = "returned" /\ open_status = ML_ERROR_INVALID_PARAMETER
  /\ available = "true"
  /\ open_args.nnfw = ML_NNFW_TYPE_ANY /\ open_nnfw = ML_NNFW_TYPE_TENSORFLOW
  /\ open_args.input_info.given /\ ~open_args.output_info.given

\* C23: when ml_check_nnfw_availability reports the framework not available,
\* ml_single_open returns not-supported at once: nothing has been constructed
\* or allocated and no handle is handed out.
C23_UnavailableIsNotSupported ==
  available = "false" =>
    /\ open_pc = "returned"
    /\ open_status = ML_ERROR_NOT_SUPPORTED
    /\ open_single = NULL
    /\ \A r \in Resources : res[r] # "live"
    /\ res["pipe"] = "none" /\ res["single_h"] = "none"

\* tensorflow-lite, asked for with a matching model file, is not available.
C23_Witness ==
  /\ available = "false" /\ open_pc = "returned"
  /\ open_status = ML_ERROR_NOT_SUPPORTED
  /\ open_nnfw = ML_NNFW_TYPE_TENSORFLOW_LITE
  /\ res["path_down"] = "freed"

\* A descriptor was passed to ml_single_open that ml_tensors_info_validate
\* does not accept.
MalformedInfoGiven ==
  \/ open_args.input_info.given /\ ~ml_tensors_info_validate(open_args.input_info.info)
  \/ open_args.output_info.given /\ ~ml_tensors_info_validate(open_args.output_info.info)

C25_DrainNeverWaits ==
  \A t \in Threads : pc[t] = "drain" => PullSampleReady(hnd[t])

\* The handle a close call works on still has everything it was opened with.
CloseUntouched(s) ==
  /\ s.src # NULL /\ s.sink # NULL /\ s.filter # NULL
  /\ s.in_info # FreedInfo /\ s.out_info # FreedInfo
  /\ s.pipe # NULL /\ ~s.freed

\* src, sink and filter are unreferenced and the two descriptors freed.
StagesReleased(s) ==
  /\ s.src = NULL /\ s.sink = NULL /\ s.filter = NULL
  /\ s.in_info = FreedInfo /\ s.out_info = FreedInfo

\* C26: in ml_single_close the magic tag is cleared while the caller holds the
\* magic lock and before it holds the handle's mutex, and the magic lock is
\* kept until the mutex is taken; after that, and in this order, the stage
\* references are released, the pipeline is destroyed, the mutex is released
\* and the handle is freed.
C26_CloseOrder ==
  \A t \in Threads :
    op[t] = "close" =>
      LET s == single[hnd[t]] IN
        /\ pc[t] = "hlock" =>
             /\ magic_lock = t /\ s.magic = MAGIC_CLEARED /\ s.lock # t /\ CloseUntouched(s)
        /\ pc[t] = "teardown" =>
             /\ magic_lock # t /\ s.magic = MAGIC_CLEARED /\ s.lock = t /\ CloseUntouched(s)
        /\ pc[t] = "destroy" =>
             /\ magic_lock # t /\ s.lock = t /\ StagesReleased(s) /\ s.pipe # NULL /\ ~s.freed
        /\ pc[t] = "unlock" =>
             /\ magic_lock # t /\ s.lock = t /\ StagesReleased(s) /\ s.pipe = NULL /\ ~s.freed
        /\ pc[t] = "free" =>
             /\ magic_lock # t /\ s.lock = NoThread /\ StagesReleased(s) /\ s.pipe = NULL
             /\ ~s.freed

\* A close has released the stages, the pipeline and the mutex of a handle
\* whose magic tag it cleared, and has not freed it yet, while another call on
\* the same handle is being turned away.
C26_Witness ==
  \E t \in Threads :
    /\ op[t] = "close" /\ pc[t] = "free"
    /\ single[hnd[t]].magic = MAGIC_CLEARED
    /\ single[hnd[t]].lock = NoThread /\ single[hnd[t]].pipe = NULL /\ ~single[hnd[t]].freed
    /\ \E u \in Threads \ {t} : hnd[u] = hnd[t] /\ pc[u] = "glock"

\* ml_single_open has returned a handle to its caller.
OpenSucceeded == open_pc = "returned" /\ open_single = "single_h"

\* The descriptor the handle must hold for one direction: the caller's when
\* one was passed, else the one parsed from the filter's properties.
ExpectedInfo(arg, props) == IF arg.given THEN arg.info ELSE props

\* C27: after a successful ml_single_open the handle's in_info and out_info
\* are, for each direction, the caller's descriptor as passed when one was
\* passed and otherwise the descriptor parsed from the filter's properties,
\* which was validated; when a descriptor obtained from the filter is not
\* valid, ml_single_open fails with ML_ERROR_INVALID_PARAMETER, closes what
\* it built and returns no handle.
C27_NegotiatedDescriptors ==
  /\ OpenSucceeded =>
       /\ single_h.in_info = ExpectedInfo(open_args.input_info, reported.input)
       /\ single_h.out_info = ExpectedInfo(open_args.output_info, reported.output)
       /\ open_args.input_info.given <=> reported.input = Unasked
       /\ open_args.output_info.given <=> reported.output = Unasked
       /\ reported.input # Unasked => ml_tensors_info_validate(reported.input)
       /\ reported.output # Unasked => ml_tensors_info_validate(reported.output)
  /\ \A dir \in {"input", "output"} :
       (reported[dir] # Unasked /\ ~ml_tensors_info_validate(reported[dir])) =>
         /\ open_pc \in {"error", "returned"}
         /\ open_status = ML_ERROR_INVALID_PARAMETER
         /\ open_single # "single_h"
         /\ open_pc = "returned" =>
              /\ single_h.freed /\ single_h.pipe = NULL
              /\ \A r \in Resources : res[r] # "live"

\* Opened with the caller's input descriptor and the output descriptor the
\* filter reported.
C27_Witness ==
  /\ OpenSucceeded
  /\ open_args.input_info.given /\ ~open_args.output_info.given
  /\ single_h.in_info = open_args.input_info.info
  /\ reported.output = [num_tensors |-> 1, info |-> <<Float32Scores>>]
  /\ single_h.out_info = reported.output

\* The filter could not describe its output: ml_single_open failed and
\* closed the handle it had built.
C27_Witness_Failed ==
  /\ open_pc = "returned" /\ open_status = ML_ERROR_INVALID_PARAMETER
  /\ reported.output = FreedInfo /\ single_h.freed

\* The push of a running invoke was refused by the appsrc.
PushRefused(t) == op[t] = "invoke" /\ ret[t] = GST_FLOW_ERROR

\* C28: when gst_app_src_push_buffer fails, ml_single_invoke goes to done
\* with ML_ERROR_STREAMS_PIPE and a NULL *output; it has queued nothing, has
\* not pulled from the appsink and has not set clear_previous_buffer; its
\* next step returns that status and leaves the per-handle mutex free.
C28_PushFailure ==
  [][\A t \in Threads :
       /\ PushRefused(t)' =>
            /\ pc'[t] = "done" /\ status'[t] = ML_ERROR_STREAMS_PIPE
            /\ output'[t] = OutputNull
            /\ pushed'[t] = 0 /\ cause'[t] = "none" /\ sample'[t] = NoSample
            /\ ~single'[hnd'[t]].clear_previous_buffer
            /\ single'[hnd'[t]].lock = t
            /\ pc[t] = "push" => (appsrc' = appsrc /\ appsink' = appsink)
       /\ (PushRefused(t) /\ pc'[t] # pc[t]) =>
            /\ pc'[t] = "idle" /\ status'[t] = ML_ERROR_STREAMS_PIPE
            /\ single'[hnd[t]].lock = NoThread
            /\ ~single'[hnd[t]].clear_previous_buffer]_vars

\* A push was refused on a handle whose previous invoke had timed out: the
\* call is at done with the pipe error, and the flag the drain cleared is
\* still clear.
C28_Witness ==
  \E t \in Threads :
    /\ PushRefused(t) /\ pc[t] = "done" /\ cleared[t]
    /\ status[t] = ML_ERROR_STREAMS_PIPE /\ output[t] = OutputNull
    /\ ~single[hnd[t]].clear_previous_buffer

\* C29: a handle returned by ml_single_open has timeout 3000 and
\* clear_previous_buffer FALSE; its appsink has max-buffers 1 and drop TRUE
\* from before the pipeline is started, and so never queues more than one
\* sample, however many the pipeline hands to it.
C29_OpenedHandleDefaults ==
  /\ OpenSucceeded =>
       /\ single_h.timeout = 3000
       /\ ~single_h.clear_previous_buffer
       /\ open_sink.playing
  /\ (open_sink.playing \/ open_pc = "start_pipeline") =>
       open_sink.props = [max_buffers |-> 1, drop |-> TRUE]
  /\ Len(open_sink.queue) <= 1

\* The appsink of a handle just returned has been handed two samples and
\* holds the second one only.
C29_Witness ==
  /\ OpenSucceeded
  /\ single_h.timeout = 3000 /\ ~single_h.clear_previous_buffer
  /\ open_sink.arrived = 2
  /\ open_sink.queue = <<[id |-> 2]>>

\* The per-handle mutexes thread t holds.
Holds(t) == {h \in Handles : single[h].lock = t}

\* The thread that holds the lock t is waiting for; NoThread when t is not
\* waiting for a lock.
WaitsFor(t) ==
  IF pc[t] = "glock" THEN magic_lock
  ELSE IF pc[t] = "hlock" /\ hnd[t] \in Handles THEN single[hnd[t]].lock
  ELSE NoThread

\* The threads reached from t by following WaitsFor at most n times.
RECURSIVE WaitChain(_, _)
WaitChain(t, n) ==
  IF n = 0 \/ WaitsFor(t) = NoThread
    THEN {}
    ELSE {WaitsFor(t)} \cup WaitChain(WaitsFor(t), n - 1)

\* C30: the calls cannot deadlock on the two kinds of lock: a call waiting
\* for a per-handle mutex holds the magic lock and no mutex, a call waiting
\* for the magic lock holds no mutex, no call holds two mutexes, and the
\* waits-for relation between calls has no cycle.
C30_NoLockDeadlock ==
  \A t \in Threads :
    /\ pc[t] = "hlock" => magic_lock = t
    /\ magic_lock = t => pc[t] = "hlock"
    /\ pc[t] \in {"glock", "hlock"} => Holds(t) = {}
    /\ Cardinality(Holds(t)) <= 1
    /\ t \notin WaitChain(t, Cardinality(Threads))

\* Three calls wait in a row: one for the magic lock, held by a call that
\* waits for the mutex of another handle, held by an invoke that is waiting
\* for its output.
C30_Witness ==
  \E t, u, v \in Threads :
    /\ pc[t] = "glock" /\ WaitsFor(t) = u
    /\ pc[u] = "hlock" /\ WaitsFor(u) = v /\ hnd[u] # hnd[t]
    /\ pc[v] = "wait" /\ Holds(v) = {hnd[u]}
    /\ WaitChain(t, Cardinality(Threads)) = {u, v}

\* Thread t is not inside a call: it has not called yet or its call returned.
Returned(t) == pc[t] = "idle"

\* C31: a thread whose call has returned, on whatever path, holds neither
\* the magic lock nor the mutex of any handle.
C31_ReturnsHoldNoLock ==
  \A t \in Threads : Returned(t) => (magic_lock # t /\ Holds(t) = {})

\* Two calls have returned on error paths, one after a wait that timed out
\* and one turned away by the liveness check or the argument tests, while a
\* third call holds the mutex of a handle.
C31_Witness ==
  \E t, u, v \in Threads :
    /\ Returned(t) /\ status[t] = ML_ERROR_TIMED_OUT
    /\ Returned(u) /\ status[u] = ML_ERROR_INVALID_PARAMETER
    /\ Holds(v) # {}
    /\ Holds(t) = {} /\ Holds(u) = {} /\ magic_lock \notin {t, u}

\* C32: of the ml_single_close calls made on one handle, one only goes past
\* the liveness check, and it finds the handle live; any other close leaves
\* the check by returning ML_ERROR_INVALID_PARAMETER.
C32_TeardownOnce ==
  [][\A t \in Threads :
       (op[t] = "close" /\ LeavesCheck(t)) =>
         IF single[hnd[t]].magic = ML_SINGLE_MAGIC /\ ~single[hnd[t]].freed
           THEN pc'[t] = "hlock" /\ single'[hnd[t]].magic = MAGIC_CLEARED
           ELSE pc'[t] = "idle" /\ status'[t] = ML_ERROR_INVALID_PARAMETER]_vars

\* C33: an ml_single_close that found its handle live returns in the end,
\* whatever call holds the handle's mutex at that time and even if the
\* pipeline never delivers another sample.
C33_CloseReturns ==
  \A t \in Threads : (op[t] = "close" /\ pc[t] = "hlock") ~> (pc[t] = "idle")

\* An invoke on handle h ends its wait for output in this step.
WaitEnds(t, h) == op[t] = "invoke" /\ hnd[t] = h /\ pc[t] = "wait" /\ pc'[t] = "done"

\* An invoke on handle h, its input accepted, finishes the drain in this step.
DrainEnds(t, h) == op[t] = "invoke" /\ hnd[t] = h /\ pc[t] = "drain" /\ pc'[t] = "push"

\* C34: clear_previous_buffer becomes TRUE only when the wait of an invoke
\* ends without a sample and FALSE only when a later invoke finishes its
\* drain; a wait that ends sets it exactly when it got no sample, a drain
\* always clears it, and no invoke pushes or waits with the flag set: the
\* flag tells whether the last wait ended without a sample and nothing has
\* drained since.
C34_FlagFollowsLastWait ==
  [][\A h \in Handles :
       /\ (~single[h].clear_previous_buffer /\ single'[h].clear_previous_buffer) =>
            \E t \in Threads : WaitEnds(t, h) /\ cause'[t] # "sample"
       /\ (single[h].clear_previous_buffer /\ ~single'[h].clear_previous_buffer) =>
            \E t \in Threads : DrainEnds(t, h) /\ InputValid(h, input[t])
       /\ \A t \in Threads :
            /\ WaitEnds(t, h) => (single'[h].clear_previous_buffer <=> cause'[t] # "sample")
            /\ DrainEnds(t, h) => ~single'[h].clear_previous_buffer
            /\ (hnd'[t] = h /\ pc'[t] \in {"push", "wait"}) =>
                 ~single'[h].clear_previous_buffer]_vars

\* An invoke that drained the sample of an earlier timed-out call has itself
\* ended its wait without a sample: the flag is set again.
C34_Witness ==
  \E t \in Threads :
    /\ op[t] = "invoke" /\ pc[t] = "done" /\ cleared[t]
    /\ cause[t] \in {"expired", "eos"}
    /\ single[hnd[t]].clear_previous_buffer

\* C35 as claimed: every block of the output a copy has gone through holds
\* as many bytes as were allocated for it from the output descriptor, read
\* from a memory the buffer has, whatever memories the buffer is made of.
C35_CopyFitsBlocks ==
  \A k \in 1..Len(cp_result) :
    k < cp_i => (cp_result[k].copied = cp_result[k].size /\ cp_result[k].mem # 0)

\* C36 as claimed: a get_subplugin that loads a subplugin never waits for
\* splock while it holds splock itself.
C36_GetNeverWaitsForItself ==
  \A t \in RegThreads : ~(sp_pc[t] = "r_lock" /\ splock = t)

\* Exactly two calls were made, both register_subplugin, with different
\* names, and both have returned TRUE.
TwoRegistered ==
  /\ sp_nops = 2
  /\ \A t \in RegThreads : sp_pc[t] = "idle" /\ sp_op[t] = "register" /\ sp_ret[t] = "TRUE"
  /\ sp_name[1] # sp_name[2]

\* C37 as claimed: after two register_subplugin calls with different names,
\* made at any timing while the table of the type did not exist, both
\* names are in the table of the type.
C37_BothRegistered ==
  TwoRegistered => {sp_name[1], sp_name[2]} \subseteq TableNames

\* Each flag is set exactly when its socket is non-null.
FlagsMatchSockets ==
  /\ (GST_TENSOR_QUERY_CLIENT_SINK_SOCKET_OPEN \in qc_flags) <=> (qc_sink_socket # 0)
  /\ (GST_TENSOR_QUERY_CLIENT_SRC_SOCKET_OPEN \in qc_flags) <=> (qc_src_socket # 0)

\* stop has returned.
Stopped == qc_pc = "idle" /\ qc_op = "stop"

\* C38: in every state of the tensor query client, whatever starts (whole
\* or failed part-way) and stops came before, each socket-open flag is set
\* exactly when its socket is non-null; when stop has returned both
\* sockets are null and both flags unset; and the part of start that
\* finds its flag set connects nothing and keeps the socket.
C38_FlagsFollowSockets ==
  [][/\ FlagsMatchSockets /\ FlagsMatchSockets'
     /\ Stopped' => (qc_sink_socket' = 0 /\ qc_src_socket' = 0 /\ qc_flags' = {})
     /\ (qc_pc = "start_sink" /\ GST_TENSOR_QUERY_CLIENT_SINK_SOCKET_OPEN \in qc_flags)
          => (qc_sink_socket' = qc_sink_socket /\ qc_sockets' = qc_sockets)
     /\ (qc_pc = "start_src" /\ GST_TENSOR_QUERY_CLIENT_SRC_SOCKET_OPEN \in qc_flags)
          => (qc_src_socket' = qc_src_socket /\ qc_sockets' = qc_sockets)]_vars

\* A start that failed part-way after an earlier stop, called again after
\* sink-port was changed: the sink socket of the failed start is open and
\* kept, no src socket.
C38_Witness ==
  /\ qc_pc = "start_src"
  /\ qc_sink_socket = 3
  /\ qc_flags = {GST_TENSOR_QUERY_CLIENT_SINK_SOCKET_OPEN}
  /\ qc_src_socket = 0
  /\ Len(qc_sockets) = 3
  /\ qc_sockets[1].state = "closed"
  /\ qc_sockets[2].state = "closed"
  /\ qc_sockets[3].state = "open"
  /\ qc_sockets[3].port # qc_sink_port

\* The file name nnsconf_get_fullpath looks for.
Wanted == g_strconcat(NNSTREAMER_PREFIX_FILTER, cf_name, SO_EXTENSION)

\* The sources that hold the wanted name as a file of any kind, symbolic
\* links included.
SourcesWithName ==
  {k \in 1..CONF_SOURCES :
     cf_search[k].configured
     /\ \E e \in 1..Len(cf_search[k].entries) :
          /\ cf_search[k].entries[e].name = Wanted
          /\ cf_search[k].entries[e].kind # "directory"}

\* The sources that hold the wanted name as a regular file.
SourcesWithFile ==
  {k \in 1..CONF_SOURCES :
     cf_search[k].configured
     /\ \E e \in 1..Len(cf_search[k].entries) :
          /\ cf_search[k].entries[e].name = Wanted
          /\ cf_search[k].entries[e].kind = "regular"}

\* The path of the wanted name in the first of the given sources.
FirstOf(sources) ==
  IF sources = {}
    THEN NoPath
    ELSE [dir |-> SourceDirs[CHOOSE k \in sources : \A j \in sources : k <= j],
          name |-> Wanted]

\* C39 as claimed: nnsconf_get_fullpath returns the path of the wanted
\* name in the first source, in the order environment, configuration
\* file, hardcoded, that holds a file of that name, and NULL when no
\* source holds one.
C39_FirstSourceWins == cf_pc = "done" => cf_ret = FirstOf(SourcesWithName)

\* C39 amended: nnsconf_get_fullpath returns the path of the wanted name in
\* the first source, in the order environment, configuration file,
\* hardcoded, that holds it as a file that is neither a directory nor a
\* symbolic link, and NULL when no source holds such a file.
C39_FirstRegularFileWins == cf_pc = "done" => cf_ret = FirstOf(SourcesWithFile)

\* The name is a regular file in the configuration file's directory and in
\* the hardcoded one, the environment's directory holds none: the
\* configuration file's path was returned.
C39_Witness ==
  /\ cf_pc = "done"
  /\ SourcesWithFile = {2, 3}
  /\ SourcesWithName = {2, 3}
  /\ cf_search[1].configured
  /\ cf_ret = [dir |-> "/conf", name |-> Wanted]

====
